---------------------------- MODULE Spec2Model ----------------------------
(***************************************************************************)
(* Model of the intent-dispatch and tool-orchestration core of             *)
(* langgraph-hybrid-architecture:                                          *)
(*   - ToolRegistry            (packages/tools/src/types.ts)               *)
(*   - ResponsesClient         (packages/agent/src/responses-client.ts)    *)
(*   - SimpleAgent.runAgent    (packages/agent/src/simple-agent.ts)        *)
(*   - AgentAPI.runAgent       (packages/agent/src/index.ts and the two    *)
(*                              other AgentAPI classes)                    *)
(*   - the workflows           (packages/graphs, packages/core)            *)
(* Each component has its own specification over the shared variables.     *)
(***************************************************************************)
EXTENDS Integers, Sequences, FiniteSets, TLC

VARIABLES
  \* ---- ToolRegistry ----
  tools,        \* Map<string, Tool> as the sequence of its values in Map iteration order
  regLog,       \* history: the tools passed to register, in call order
  \* ---- ResponsesClient ----
  config,                 \* this.config (the boolean flags)
  containerId,            \* this.containerId          (Null = null)
  fileSearchContainerId,  \* this.fileSearchContainerId
  vectorStoreId,          \* this.vectorStoreId
  procs,                  \* the in-flight async calls on the client, by caller
                          \* (builtIn: history, enableBuiltInTools as read by the call)
  created,                \* collaborator: number of resources created, per kind
  createCalls,            \* collaborator: number of create invocations, per kind
  sent,                   \* collaborator: the outbound responses.create requests, in order
  started,                \* history: number of client calls started
  \* ---- SimpleAgent.runAgent ----
  message,      \* the message of the current request, as a lexeme sequence
  pc,           \* position of the runAgent call
  branch,       \* which of the six branches was taken
  pending,      \* the tool call suspended at "await tool.execute(...)"
  response,     \* response
  toolCalls,    \* toolCalls
  toolResults,  \* toolResults
  errorField,   \* the error field of the returned object
  executed,     \* history: the executor invocations made by this request
  invoked,      \* history: the contents passed to model.invoke by this request
  threw,        \* history: the tools whose executor threw
  \* ---- AgentAPI.runAgent ----
  oVariant,     \* which AgentAPI serves the request: "responses" (agent/src/index.ts),
                \* "chat" (the Chat Completions AgentAPI) or "simple" (the wrapper
                \* of SimpleAgent)
  oPc,          \* position of the runAgent call
  oFirst,       \* the first upstream response, as runAgent reads it
  oBatch,       \* response.toolCalls / responseMessage.tool_calls
  oIndex,       \* the iteration of "for (const toolCall of ...)"
  oTarget,      \* the executor suspended at "await", and where inside it
  oResults,     \* toolResults
  oUpstream,    \* collaborator: the orchestrator's requests to the language model
  oTrace,       \* history: the indices of the tool calls whose executor was invoked
  oThrown,      \* history: what threw during the request
  oReturn,      \* the value runAgent resolved with
  \* ---- ResponsesClient.parseResponse ----
  raw,          \* the response of responses.create
  parsed,       \* what parseResponse made of it
  \* ---- the callers' settings ----
  options,          \* the options of the request (AgentOptions / ResponsesRequest)
  flags,            \* FeatureFlagManager.flags
  flagLog,          \* history: the flag operations, each with the flags before it
  simpleConfig,     \* SimpleAgent.config
  simpleModel,      \* the parameters SimpleAgent.model was constructed with
  configLog,        \* history: the arguments of the constructor and of updateConfig
  oAttempt          \* the hybrid agent's Agent API attempt

regVars    == <<tools, regLog>>
clientVars == <<config, containerId, fileSearchContainerId, vectorStoreId,
                procs, created, createCalls, sent, started>>
agentVars  == <<message, pc, branch, pending, response, toolCalls, toolResults,
                errorField, executed, invoked, threw>>
orchVars   == <<oVariant, oPc, oFirst, oBatch, oIndex, oTarget, oResults, oUpstream,
                oTrace, oThrown, oReturn>>
parseVars  == <<raw, parsed>>
flagVars   == <<flags, flagLog>>
simpleVars == <<simpleConfig, simpleModel, configLog>>
extVars    == <<options, flagVars, simpleVars, oAttempt>>
vars       == <<regVars, clientVars, agentVars, orchVars, parseVars, extVars>>

Null == 0

(***************************************************************************)
(*                              ToolRegistry                               *)
(***************************************************************************)

\* Bounds of the registry specification.
MaxRegs == 4
MaxImpl == 2

\* The tool names used by the registry specification and the Tool values:
\* a Tool is identified by its name and by which executor (impl) it carries.
RegNames == {"calculate", "get_weather", "web_search"}
Tool(n, i) == [name |-> n, impl |-> i]

\* Index of the entry with key n in a Map's entry list, 0 if absent.
IndexOf(ts, n) ==
  IF \E i \in 1..Len(ts) : ts[i].name = n
  THEN CHOOSE i \in 1..Len(ts) : ts[i].name = n
  ELSE 0

\* Map.prototype.set: an existing key keeps its position and gets the new
\* value, a new key is appended.
MapSet(ts, t) ==
  IF IndexOf(ts, t.name) # 0
  THEN [ts EXCEPT ![IndexOf(ts, t.name)] = t]
  ELSE Append(ts, t)

\* A register that keeps the first tool registered under a name.
register_FirstWins(ts, t) == IF IndexOf(ts, t.name) # 0 THEN ts ELSE Append(ts, t)

\* A register that deletes the old entry and inserts the new one at the end.
register_MoveToEnd(ts, t) ==
  Append(SelectSeq(ts, LAMBDA e : e.name # t.name), t)

\* ToolRegistry.register
register(ts, t) == MapSet(ts, t)

\* ToolRegistry.get: the tool, or Undefined.
Undefined == [name |-> "undefined", impl |-> 0]
get(ts, n) == IF IndexOf(ts, n) # 0 THEN ts[IndexOf(ts, n)] ELSE Undefined

\* ToolRegistry.getAll: Array.from(this.tools.values())
getAll(ts) == ts

\* A JSON schema of type object: the keys of its properties, its required
\* list, and additionalProperties ("absent" when the schema has none).
Schema(props, req, ap) ==
  [type |-> "object", properties |-> props, required |-> req, additionalProperties |-> ap]
NoSchema == [type |-> "none", properties |-> {}, required |-> {}, additionalProperties |-> "absent"]

\* tool.jsonSchema of the tools the modules register.  calculate and
\* get_weather exist in two versions (impl 1, impl 2).
jsonSchema(t) ==
  CASE t.name = "calculate" /\ t.impl = 1 -> Schema({"expression"}, {"expression"}, "absent")
    [] t.name = "calculate" /\ t.impl # 1 ->
         Schema({"expression", "precision"}, {"expression", "precision"}, "absent")
    [] t.name = "get_weather" /\ t.impl = 1 -> Schema({"location", "unit"}, {"location"}, "absent")
    [] t.name = "get_weather" /\ t.impl # 1 -> Schema({"location"}, {"location"}, "absent")
    [] t.name \in {"web_search", "file_search", "search_workflow"} ->
         Schema({"query"}, {"query"}, "absent")
    [] t.name = "code_interpreter" -> Schema({"code"}, {"code"}, "absent")
    [] t.name = "weather_workflow" -> Schema({"location"}, {"location"}, "absent")
    [] OTHER -> NoSchema

\* ToolRegistry.getOpenAITools: one descriptor per tool, same order.
getOpenAITools(ts) ==
  [i \in 1..Len(getAll(ts)) |->
     [type |-> "function", name |-> getAll(ts)[i].name, impl |-> getAll(ts)[i].impl,
      parameters |-> jsonSchema(getAll(ts)[i])]]

\* The registry as left by the registrations made at module load.
StartupNames == <<"calculate", "get_weather", "web_search", "code_interpreter",
                  "file_search", "weather_workflow", "search_workflow">>
StartupTools == [i \in 1..Len(StartupNames) |-> Tool(StartupNames[i], 1)]

RegInit ==
  /\ tools = <<>>
  /\ regLog = <<>>

\* One call toolRegistry.register(tool).
Register(n, i) ==
  /\ Len(regLog) < MaxRegs
  /\ tools' = register(tools, Tool(n, i))
  /\ regLog' = Append(regLog, Tool(n, i))
  /\ UNCHANGED <<clientVars, agentVars, orchVars, parseVars, extVars>>

(***************************************************************************)
(*                             ResponsesClient                             *)
(***************************************************************************)

\* Bounds of the client specifications.
MaxProcs == 2
MaxCalls == 3

Procs == 1..MaxProcs
Kinds == {"container", "fileSearchContainer", "vectorStore"}

\* The public async methods of the client and the resource each one asks
\* for first (ask: see buildTools).
ResourceOps == {"uploadFileForSearch", "listSearchFiles",
                "uploadDocumentForRetrieval", "listRetrievalDocuments"}
ResourceOf(op) ==
  IF op \in {"uploadFileForSearch", "listSearchFiles"}
  THEN "fileSearchContainer" ELSE "vectorStore"

\* The tools the orchestrator passes in request.tools.
HostedTool(type, ref) == [type |-> type, name |-> "", ref |-> ref, parameters |-> NoSchema]
FunctionTool(name, schema) ==
  [type |-> "function", name |-> name, ref |-> Null, parameters |-> schema]
WorkflowTools ==
  <<FunctionTool("weather_workflow", Schema({"location"}, {"location"}, "absent")),
    FunctionTool("search_workflow", Schema({"query"}, {"query"}, "absent"))>>
CustomToolChoices == {<<>>, WorkflowTools}

\* The memoized handle of a resource kind.
HandleOf(k) ==
  CASE k = "container"           -> containerId
    [] k = "fileSearchContainer" -> fileSearchContainerId
    [] k = "vectorStore"         -> vectorStoreId

\* A getter that does not consult the memoized handle.
NeedsCreate_Always(h) == TRUE

\* "if (!this.containerId)" and its two siblings: does the getter provision?
NeedsCreate(h) == h = Null

\* The flags of a client constructed with every feature off.
NoFlags == [enableBuiltInTools |-> FALSE, enableStructuredOutput |-> FALSE,
            enableFileSearch |-> FALSE, enableRetrieval |-> FALSE,
            enableComputerUse |-> FALSE]
\* atStart: history, this.config when the call started.
IdleProc == [pc |-> "idle", op |-> "none", kind |-> "none", ret |-> Null,
             tools |-> <<>>, custom |-> <<>>, builtIn |-> FALSE, atStart |-> NoFlags]

\* A test that takes the file-search flag for the switch of the hosted tools too.
builtInEnabled_OrFileSearch(c) == c.enableBuiltInTools \/ c.enableFileSearch

\* buildTools: "if (this.config.enableBuiltInTools)"
builtInEnabled(c) == c.enableBuiltInTools

\* getAvailableBuiltInTools: the two fixed names, and file_search when
\* "this.config.enableFileSearch".
getAvailableBuiltInTools(c) ==
  <<"web_search_preview", "code_interpreter">>
    \o (IF c.enableFileSearch THEN <<"file_search">> ELSE <<>>)

\* fixSchemaForResponses: an object schema with properties gets
\* additionalProperties: false; nothing else of it is changed.
fixSchemaForResponses(schema) ==
  IF schema.type = "object"
  THEN [schema EXCEPT !.additionalProperties = "false"]
  ELSE schema

\* Registry tools and request tools appended at the end of buildTools.
registryTools == [i \in 1..Len(getOpenAITools(tools)) |->
                    FunctionTool(getOpenAITools(tools)[i].name,
                                 fixSchemaForResponses(getOpenAITools(tools)[i].parameters))]
fixedCustomTools(ct) ==
  [i \in 1..Len(ct) |-> [ct[i] EXCEPT !.parameters = fixSchemaForResponses(@)]]

\* The five optional generation parameters.  A value of an options object:
\* "absent" (no such key), "undefined", or the value written as text.
ParamKeys == {"temperature", "maxOutputTokens", "topP", "topLogprobs", "parallelToolCalls"}
ParamValues(k) ==
  CASE k = "temperature"       -> {"absent", "undefined", "0", "0.7"}
    [] k = "maxOutputTokens"   -> {"absent", "256"}
    [] k = "topP"              -> {"absent", "0.9"}
    [] k = "topLogprobs"       -> {"absent", "0", "5"}
    [] k = "parallelToolCalls" -> {"absent", "false", "true"}
OptionChoices == {o \in [ParamKeys -> {"absent", "undefined", "0", "0.7", "256", "0.9",
                                        "5", "false", "true"}] :
                    \A k \in ParamKeys : o[k] \in ParamValues(k)}
NoOptions == [k \in ParamKeys |-> "absent"]

\* A test of the value by its truthiness.
provided_Truthy(v) == v \notin {"absent", "undefined", "0", "false"}

\* "x.temperature !== undefined" and its four siblings.
provided(v) == v \notin {"absent", "undefined"}

\* AgentAPI.runAgent: the request passed to ask, "...(options?.k !==
\* undefined && { k: options.k })" for every key.
requestOf(opts) == [k \in ParamKeys |-> IF provided(opts[k]) THEN opts[k] ELSE "absent"]

\* The key of the outbound request for a key of the request.
BodyKey(k) ==
  CASE k = "temperature"       -> "temperature"
    [] k = "maxOutputTokens"   -> "max_output_tokens"
    [] k = "topP"              -> "top_p"
    [] k = "topLogprobs"       -> "top_logprobs"
    [] k = "parallelToolCalls" -> "parallel_tool_calls"
BodyKeys == {BodyKey(k) : k \in ParamKeys}
\* ask: "...(request.k !== undefined && { body_key: request.k })".
bodyParams(req) ==
  [b \in BodyKeys |->
     LET k == CHOOSE x \in ParamKeys : BodyKey(x) = b
     IN IF provided(req[k]) THEN req[k] ELSE "absent"]
\* The request ask is called with: AgentAPI.runAgent, which passes the two
\* workflow tools, builds it from its options; any other caller passes its
\* own.
askRequest(ct, opts) == IF ct = WorkflowTools THEN requestOf(opts) ELSE opts

\* The call of a getter (getContainer, getFileSearchContainer,
\* getVectorStore) up to its suspension: either the create call is issued,
\* or the memoized handle is returned through a resolved promise.
CallGetter(p, k, pr) ==
  IF NeedsCreate(HandleOf(k))
  THEN /\ procs' = [procs EXCEPT ![p] = [pr EXCEPT !.pc = "create", !.kind = k]]
       /\ createCalls' = [createCalls EXCEPT ![k] = @ + 1]
  ELSE /\ procs' = [procs EXCEPT ![p] =
                      [pr EXCEPT !.pc = "ready", !.kind = k, !.ret = HandleOf(k)]]
       /\ UNCHANGED createCalls

ClientInit ==
  /\ config \in [enableBuiltInTools : BOOLEAN, enableStructuredOutput : {FALSE},
                 enableFileSearch : BOOLEAN, enableRetrieval : {FALSE},
                 enableComputerUse : {FALSE}]
  /\ containerId = Null
  /\ fileSearchContainerId = Null
  /\ vectorStoreId = Null
  /\ procs = [p \in Procs |-> IdleProc]
  /\ created = [k \in Kinds |-> 0]
  /\ createCalls = [k \in Kinds |-> 0]
  /\ sent = <<>>
  /\ started = 0

\* ask(request) up to the first suspension inside buildTools.
StartAsk(p, ct) ==
  /\ procs[p].pc = "idle"
  /\ started < MaxCalls
  /\ started' = started + 1
  /\ IF builtInEnabled(config)
     THEN CallGetter(p, "container",
            [IdleProc EXCEPT !.op = "ask", !.custom = ct, !.builtIn = TRUE,
                             !.atStart = config,
                             !.tools = <<HostedTool("web_search_preview", Null)>>])
     ELSE /\ procs' = [procs EXCEPT ![p] =
                 [IdleProc EXCEPT !.op = "ask", !.custom = ct, !.pc = "built",
                                  !.atStart = config,
                                  !.tools = registryTools \o fixedCustomTools(ct)]]
          /\ UNCHANGED createCalls
  /\ UNCHANGED <<config, containerId, fileSearchContainerId, vectorStoreId,
                 created, sent, regVars, agentVars, orchVars, parseVars, extVars>>

\* uploadFileForSearch, listSearchFiles, uploadDocumentForRetrieval,
\* listRetrievalDocuments up to the suspension inside their getter.
StartResourceOp(p, op) ==
  /\ procs[p].pc = "idle"
  /\ started < MaxCalls
  /\ started' = started + 1
  /\ CallGetter(p, ResourceOf(op), [IdleProc EXCEPT !.op = op])
  /\ UNCHANGED <<config, containerId, fileSearchContainerId, vectorStoreId,
                 created, sent, regVars, agentVars, orchVars, parseVars, extVars>>

\* containers.create / vectorStores.create resolves: the getter stores the
\* new id in its field and returns the field.
CreateReturns(p) ==
  /\ procs[p].pc = "create"
  /\ LET k  == procs[p].kind
         id == created[k] + 1
     IN /\ created' = [created EXCEPT ![k] = id]
        /\ containerId' = IF k = "container" THEN id ELSE containerId
        /\ fileSearchContainerId' =
             IF k = "fileSearchContainer" THEN id ELSE fileSearchContainerId
        /\ vectorStoreId' = IF k = "vectorStore" THEN id ELSE vectorStoreId
        /\ procs' = [procs EXCEPT ![p].pc = "ready", ![p].ret = id]
  /\ UNCHANGED <<config, createCalls, sent, started, regVars, agentVars, orchVars, parseVars, extVars>>

\* A getter that catches the rejection of its create call and returns the
\* handle as it is.
CreateFails_Swallowed(p) ==
  /\ procs[p].pc = "create"
  /\ procs' = [procs EXCEPT ![p].pc = "ready", ![p].ret = HandleOf(procs[p].kind)]
  /\ UNCHANGED <<config, containerId, fileSearchContainerId, vectorStoreId,
                 created, createCalls, sent, started, regVars, agentVars, orchVars, parseVars, extVars>>

\* containers.create / vectorStores.create rejects: the call rejects.
CreateFails(p) ==
  /\ procs[p].pc = "create"
  /\ procs' = [procs EXCEPT ![p] = [IdleProc EXCEPT !.pc = "rejected", !.op = procs[p].op,
                                                     !.atStart = procs[p].atStart]]
  /\ UNCHANGED <<config, containerId, fileSearchContainerId, vectorStoreId,
                 created, createCalls, sent, started, regVars, agentVars, orchVars, parseVars, extVars>>

\* buildTools resumes after "await this.getContainer()".
ResumeAfterContainer(p) ==
  /\ procs[p].pc = "ready"
  /\ procs[p].op = "ask"
  /\ procs[p].kind = "container"
  /\ LET pr == [procs[p] EXCEPT
                  !.tools = Append(@, HostedTool("code_interpreter", procs[p].ret))]
     IN IF config.enableFileSearch
        THEN CallGetter(p, "vectorStore", pr)
        ELSE /\ procs' = [procs EXCEPT ![p] =
                    [pr EXCEPT !.pc = "built",
                               !.tools = @ \o registryTools \o fixedCustomTools(pr.custom)]]
             /\ UNCHANGED createCalls
  /\ UNCHANGED <<config, containerId, fileSearchContainerId, vectorStoreId,
                 created, sent, started, regVars, agentVars, orchVars, parseVars, extVars>>

\* buildTools resumes after "await this.getVectorStore()".
ResumeAfterVectorStore(p) ==
  /\ procs[p].pc = "ready"
  /\ procs[p].op = "ask"
  /\ procs[p].kind = "vectorStore"
  /\ procs' = [procs EXCEPT ![p].pc = "built",
                 ![p].tools = Append(@, HostedTool("file_search", procs[p].ret))
                                \o registryTools \o fixedCustomTools(procs[p].custom)]
  /\ UNCHANGED <<config, containerId, fileSearchContainerId, vectorStoreId,
                 created, createCalls, sent, started, regVars, agentVars, orchVars, parseVars, extVars>>

\* ask resumes after "await this.buildTools(...)": responses.create is called.
SendRequest(p) ==
  /\ procs[p].pc = "built"
  /\ sent' = Append(sent, [by |-> p, tools |-> procs[p].tools,
                            builtIn |-> procs[p].builtIn,
                            params |-> bodyParams(askRequest(procs[p].custom, options))])
  /\ procs' = [procs EXCEPT ![p].pc = "request"]
  /\ UNCHANGED <<config, containerId, fileSearchContainerId, vectorStoreId,
                 created, createCalls, started, regVars, agentVars, orchVars, parseVars, extVars>>

\* The call settles: responses.create resolves or rejects (ask), or the file
\* calls that follow the getter resolve or reject (the other methods).
CallSettles(p) ==
  /\ \/ procs[p].pc = "request"
     \/ procs[p].pc = "ready" /\ procs[p].op \in ResourceOps
     \/ procs[p].pc = "rejected"
  /\ procs' = [procs EXCEPT ![p] = IdleProc]
  /\ UNCHANGED <<config, containerId, fileSearchContainerId, vectorStoreId,
                 created, createCalls, sent, started, regVars, agentVars, orchVars, parseVars, extVars>>

\* enableFileSearch() / disableFileSearch()
SetFileSearch(b) ==
  /\ config.enableFileSearch # b
  /\ config' = [config EXCEPT !.enableFileSearch = b]
  /\ UNCHANGED <<containerId, fileSearchContainerId, vectorStoreId, procs,
                 created, createCalls, sent, started, regVars, agentVars, orchVars, parseVars, extVars>>

\* updateConfig({ enableBuiltInTools: b })
UpdateBuiltInTools(b) ==
  /\ config.enableBuiltInTools # b
  /\ config' = [config EXCEPT !.enableBuiltInTools = b]
  /\ UNCHANGED <<containerId, fileSearchContainerId, vectorStoreId, procs,
                 created, createCalls, sent, started, regVars, agentVars, orchVars, parseVars, extVars>>

(***************************************************************************)
(*                  Strings and regular expressions                        *)
(* A string is the sequence of its characters.  The regular expressions of *)
(* runAgent are evaluated as the backtracking matcher evaluates them: a    *)
(* sub-pattern applied at a position yields the positions where it can     *)
(* end, in the order the matcher tries them, and the first complete match  *)
(* from the leftmost start position is the result.                         *)
(***************************************************************************)

UpperLetters == <<"A","B","C","D","E","F","G","H","I","J","K","L","M",
                  "N","O","P","Q","R","S","T","U","V","W","X","Y","Z">>
LowerLetters == <<"a","b","c","d","e","f","g","h","i","j","k","l","m",
                  "n","o","p","q","r","s","t","u","v","w","x","y","z">>
Digits     == {"0","1","2","3","4","5","6","7","8","9"}
Letters    == {UpperLetters[i] : i \in 1..26} \cup {LowerLetters[i] : i \in 1..26}
WordChars  == Letters \cup Digits \cup {"_"}                  \* \w
Spaces     == {" ", "\n", "\t"}                               \* \s
Operators  == {"+", "-", "*", "/"}                            \* the operator class
\* The backtick character (it cannot be written inside a TLA+ string).
Backtick   == "BACKTICK"
Alphabet   == WordChars \cup Spaces \cup Operators \cup {".", Backtick, "?", "="}
Dot        == Alphabet \ {"\n"}                               \* .
NotPeriod  == Alphabet \ {"."}                                \* [^.]
AnyChar    == Alphabet                                        \* [\s\S]

\* String.prototype.toLowerCase
LowerMap ==
  [c \in Alphabet |->
     IF \E i \in 1..26 : UpperLetters[i] = c
     THEN LowerLetters[CHOOSE i \in 1..26 : UpperLetters[i] = c]
     ELSE c]
LowerChar(c) == LowerMap[c]
toLowerCase(s) == [i \in 1..Len(s) |-> LowerChar(s[i])]

\* Does the literal k occur in s at position p?
MatchAt(s, k, p) ==
  /\ p + Len(k) - 1 <= Len(s)
  /\ \A j \in 1..Len(k) : s[p + j - 1] = k[j]

\* String.prototype.includes
includes(s, k) == \E p \in 1..(Len(s) + 1) : MatchAt(s, k, p)

\* String.prototype.trim
trim(s) ==
  IF \A i \in 1..Len(s) : s[i] \in Spaces
  THEN <<>>
  ELSE LET a == CHOOSE i \in 1..Len(s) :
                  s[i] \notin Spaces /\ \A j \in 1..(i - 1) : s[j] \in Spaces
           b == CHOOSE i \in 1..Len(s) :
                  s[i] \notin Spaces /\ \A j \in (i + 1)..Len(s) : s[j] \in Spaces
       IN SubSeq(s, a, b)

\* The results of F at every position of ps, in order.
FlatMap(F(_), ps) ==
  LET f[i \in 0..Len(ps)] == IF i = 0 THEN <<>> ELSE f[i - 1] \o F(ps[i])
  IN f[Len(ps)]

\* A literal at p.
Lit(s, k, p) == IF MatchAt(s, k, p) THEN <<p + Len(k)>> ELSE <<>>

\* An alternation of literals (a|b|...) at p: the alternatives in order.
AltLits(s, ks, p) == FlatMap(LAMBDA i : Lit(s, ks[i], p), [i \in 1..Len(ks) |-> i])

\* Length of the longest run of characters of class C starting at p.
RunLen(s, C, p) ==
  LET stops == {q \in p..Len(s) : s[q] \notin C}
  IN IF stops = {} THEN Len(s) + 1 - p
     ELSE (CHOOSE q \in stops : \A r \in stops : q <= r) - p

\* Greedy plus of C at p: longest first.
PlusGreedy(s, C, p) == LET n == RunLen(s, C, p) IN [i \in 1..n |-> p + n + 1 - i]
\* Greedy star of C at p.
StarGreedy(s, C, p) == PlusGreedy(s, C, p) \o <<p>>
\* Lazy star of C at p: shortest first.
StarLazy(s, C, p) == LET n == RunLen(s, C, p) IN [i \in 1..(n + 1) |-> p + i - 1]

\* The first result over the start positions 1..Len(s), or <<>> for null.
\* R(i) is the ordered result list of the whole pattern started at i; a
\* result is <<group start, group end>>, the end exclusive.
FirstMatch(R(_), s) ==
  LET starts == {i \in 1..Len(s) : R(i) # <<>>}
  IN IF starts = {} THEN <<>>
     ELSE Head(R(CHOOSE i \in starts : \A j \in starts : i <= j))

\* The text of a capture group.
Group(s, m) == SubSeq(s, m[1], m[2] - 1)

\* The literals of the guards and patterns of runAgent.
K_file == <<"f", "i", "l", "e">>
K_search == <<"s", "e", "a", "r", "c", "h">>
K_find == <<"f", "i", "n", "d">>
K_look_for == <<"l", "o", "o", "k", " ", "f", "o", "r">>
K_look_up == <<"l", "o", "o", "k", " ", "u", "p">>
K_web_search == <<"w", "e", "b", " ", "s", "e", "a", "r", "c", "h">>
K_internet_search == <<"i", "n", "t", "e", "r", "n", "e", "t", " ", "s", "e", "a", "r", "c", "h">>
K_fence == <<Backtick, Backtick, Backtick>>
K_code == <<"c", "o", "d", "e">>
K_execute == <<"e", "x", "e", "c", "u", "t", "e">>
K_run_code == <<"r", "u", "n", " ", "c", "o", "d", "e">>
K_python == <<"p", "y", "t", "h", "o", "n">>
K_javascript == <<"j", "a", "v", "a", "s", "c", "r", "i", "p", "t">>
K_calculate == <<"c", "a", "l", "c", "u", "l", "a", "t", "e">>
K_math == <<"m", "a", "t", "h">>
K_weather == <<"w", "e", "a", "t", "h", "e", "r">>
K_temperature == <<"t", "e", "m", "p", "e", "r", "a", "t", "u", "r", "e">>
K_in == <<"i", "n">>
K_for == <<"f", "o", "r">>
K_document == <<"d", "o", "c", "u", "m", "e", "n", "t">>
K_nl == <<"\n">>
K_nl_fence == <<"\n", Backtick, Backtick, Backtick>>

\* Sub-patterns shared by the patterns below.
SpacesPlus(s, p) == PlusGreedy(s, Spaces, p)                       \* \s+
SpacesStar(s, p) == StarGreedy(s, Spaces, p)                       \* \s*
OneOf(s, C, p)   == IF p <= Len(s) /\ s[p] \in C THEN <<p + 1>> ELSE <<>>
\* (?:k\s+)? : the group first, then the empty alternative.
OptWordSpaces(s, k, p) == FlatMap(LAMBDA q : SpacesPlus(s, q), Lit(s, k, p)) \o <<p>>
\* ks? : the literal k followed by an optional "s".
LitOptS(s, k, p) == FlatMap(LAMBDA q : Lit(s, <<"s">>, q) \o <<q>>, Lit(s, k, p))
\* (C+) greedy as the last element of a pattern: the captures, longest first.
CaptureGreedy(s, C, p) ==
  LET n == RunLen(s, C, p) IN [i \in 1..n |-> <<p, p + n + 1 - i>>]

\* /(?:search|find|look for)\s+(?:in\s+)?(?:files?|documents?)\s+(?:for\s+)?(.+)/i
\* applied at start position i of the lower-cased message.
fileSearchPattern(l, i) ==
  LET a1 == AltLits(l, <<K_search, K_find, K_look_for>>, i)
      a2 == FlatMap(LAMBDA p : SpacesPlus(l, p), a1)
      a3 == FlatMap(LAMBDA p : OptWordSpaces(l, K_in, p), a2)
      a4 == FlatMap(LAMBDA p : LitOptS(l, K_file, p) \o LitOptS(l, K_document, p), a3)
      a5 == FlatMap(LAMBDA p : SpacesPlus(l, p), a4)
      a6 == FlatMap(LAMBDA p : OptWordSpaces(l, K_for, p), a5)
  IN FlatMap(LAMBDA p : CaptureGreedy(l, Dot, p), a6)

\* /(?:search|find|look up|web search|internet search)\s+(?:for\s+)?(.+)/i
searchPattern(l, i) ==
  LET a1 == AltLits(l, <<K_search, K_find, K_look_up, K_web_search, K_internet_search>>, i)
      a2 == FlatMap(LAMBDA p : SpacesPlus(l, p), a1)
      a3 == FlatMap(LAMBDA p : OptWordSpaces(l, K_for, p), a2)
  IN FlatMap(LAMBDA p : CaptureGreedy(l, Dot, p), a3)

\* The lazy group ([\s\S]*?) followed by \n``` : the captures, shortest first.
CaptureUntilFence(s, p) ==
  FlatMap(LAMBDA e : IF MatchAt(s, K_nl_fence, e) THEN << <<p, e>> >> ELSE <<>>,
          StarLazy(s, AnyChar, p))

\* The code pattern without the optional language tag.
codePattern_NoTag(s, i) ==
  LET a1 == Lit(s, K_fence, i)
      a3 == FlatMap(LAMBDA p : Lit(s, K_nl, p), a1)
  IN FlatMap(LAMBDA p : CaptureUntilFence(s, p), a3)

\* /```(?:\w+)?\n([\s\S]*?)\n```/
codePattern(s, i) ==
  LET a1 == Lit(s, K_fence, i)
      a2 == FlatMap(LAMBDA p : PlusGreedy(s, WordChars, p) \o <<p>>, a1)
      a3 == FlatMap(LAMBDA p : Lit(s, K_nl, p), a2)
  IN FlatMap(LAMBDA p : CaptureUntilFence(s, p), a3)

\* /(\d+\s*[\+\-\*\/]\s*\d+)/ : the group is the whole match.
calcPattern(s, i) ==
  LET a1 == PlusGreedy(s, Digits, i)
      a2 == FlatMap(LAMBDA p : SpacesStar(s, p), a1)
      a3 == FlatMap(LAMBDA p : OneOf(s, Operators, p), a2)
      a4 == FlatMap(LAMBDA p : SpacesStar(s, p), a3)
      a5 == FlatMap(LAMBDA p : PlusGreedy(s, Digits, p), a4)
  IN [k \in 1..Len(a5) |-> <<i, a5[k]>>]

\* /calculate\s+\d/
calculateDigitPattern(l, i) ==
  LET a1 == Lit(l, K_calculate, i)
      a2 == FlatMap(LAMBDA p : SpacesPlus(l, p), a1)
      a3 == FlatMap(LAMBDA p : OneOf(l, Digits, p), a2)
  IN [k \in 1..Len(a3) |-> <<i, a3[k]>>]

\* /calculate\s+(\d+\s*[\+\-\*\/]\s*\d+)/i
calculateExprPattern(l, i) ==
  LET a1 == Lit(l, K_calculate, i)
      a2 == FlatMap(LAMBDA p : SpacesPlus(l, p), a1)
  IN FlatMap(LAMBDA p : calcPattern(l, p), a2)

\* The weather pattern without the optional "in".
weatherPattern_NoIn(l, i) ==
  LET a1 == Lit(l, K_weather, i)
      a2 == FlatMap(LAMBDA p : SpacesPlus(l, p), a1)
  IN FlatMap(LAMBDA p : CaptureGreedy(l, NotPeriod, p), a2)

\* /weather\s+(?:in\s+)?([^.]+)/i
weatherPattern(l, i) ==
  LET a1 == Lit(l, K_weather, i)
      a2 == FlatMap(LAMBDA p : SpacesPlus(l, p), a1)
      a3 == FlatMap(LAMBDA p : OptWordSpaces(l, K_in, p), a2)
  IN FlatMap(LAMBDA p : CaptureGreedy(l, NotPeriod, p), a3)

\* message.match(...) for the five extractions: <<>> for null, else the
\* position of group 1 in the message.
fileSearchMatch(s) == LET l == toLowerCase(s) IN FirstMatch(LAMBDA i : fileSearchPattern(l, i), s)
searchMatch(s) == LET l == toLowerCase(s) IN FirstMatch(LAMBDA i : searchPattern(l, i), s)
codeMatch(s)       == FirstMatch(LAMBDA i : codePattern(s, i), s)
calcMatch(s)       == FirstMatch(LAMBDA i : calcPattern(s, i), s)
numMatch(s) == LET l == toLowerCase(s) IN FirstMatch(LAMBDA i : calculateExprPattern(l, i), s)
locationMatch(s) == LET l == toLowerCase(s) IN FirstMatch(LAMBDA i : weatherPattern(l, i), s)

(***************************************************************************)
(*                          SimpleAgent.runAgent                           *)
(***************************************************************************)

\* A file-search guard without the two exclusions.
needsFileSearch_NoExclusion(s) ==
  LET l == toLowerCase(s)
  IN /\ includes(l, K_file)
     /\ \/ includes(l, K_search)
        \/ includes(l, K_find)
        \/ includes(l, K_look_for)

\* The intent guards.
needsFileSearch(s) ==
  LET l == toLowerCase(s)
  IN /\ includes(l, K_file)
     /\ \/ includes(l, K_search)
        \/ includes(l, K_find)
        \/ includes(l, K_look_for)
     /\ ~includes(l, K_web_search)
     /\ ~includes(l, K_internet_search)

\* A web-search guard that does not exclude the file-search guard.
needsWebSearch_NoExclusion(s) ==
  LET l == toLowerCase(s)
  IN \/ includes(l, K_search)
     \/ includes(l, K_find)
     \/ includes(l, K_look_up)
     \/ includes(l, K_web_search)
     \/ includes(l, K_internet_search)

needsWebSearch(s) ==
  LET l == toLowerCase(s)
  IN /\ \/ includes(l, K_search)
        \/ includes(l, K_find)
        \/ includes(l, K_look_up)
        \/ includes(l, K_web_search)
        \/ includes(l, K_internet_search)
     /\ ~needsFileSearch(s)

needsCodeInterpreter(s) ==
  LET l == toLowerCase(s)
  IN \/ includes(s, K_fence)
     \/ includes(l, K_code)
     \/ includes(l, K_execute)
     \/ includes(l, K_run_code)
     \/ includes(l, K_python)
     \/ includes(l, K_javascript)

needsCalculation(s) ==
  LET l == toLowerCase(s)
  IN \/ includes(l, K_calculate)
     \/ includes(l, K_math)
     \/ calcMatch(s) # <<>>
     \/ FirstMatch(LAMBDA i : calculateDigitPattern(l, i), s) # <<>>

needsWeather(s) ==
  LET l == toLowerCase(s)
  IN \/ includes(l, K_weather)
     \/ includes(l, K_temperature)

\* The chain with the calculation test ahead of the code test.
Branch_CalculationFirst(s) ==
  IF needsFileSearch(s) THEN "file_search"
  ELSE IF needsWebSearch(s) THEN "web_search"
  ELSE IF needsCalculation(s) THEN "calculation"
  ELSE IF needsCodeInterpreter(s) THEN "code_execution"
  ELSE IF needsWeather(s) THEN "weather"
  ELSE "fallback"

\* The if / else-if chain: the branch taken.
Branch(s) ==
  IF needsFileSearch(s) THEN "file_search"
  ELSE IF needsWebSearch(s) THEN "web_search"
  ELSE IF needsCodeInterpreter(s) THEN "code_execution"
  ELSE IF needsCalculation(s) THEN "calculation"
  ELSE IF needsWeather(s) THEN "weather"
  ELSE "fallback"

\* The name looked up in availableTools by each branch.
ToolNameOf(b) ==
  CASE b = "file_search"    -> "file_search"
    [] b = "web_search"     -> "web_search"
    [] b = "code_execution" -> "code_interpreter"
    [] b = "calculation"    -> "calculate"
    [] b = "weather"        -> "get_weather"
    [] OTHER                -> "none"

\* The expression extracted by the calculation branch ("" when none).
expression(s) ==
  IF calcMatch(s) # <<>> THEN Group(s, calcMatch(s))
  ELSE IF includes(toLowerCase(s), K_calculate) /\ numMatch(s) # <<>>
       THEN Group(s, numMatch(s))
       ELSE <<>>

\* Did the branch extract its argument, and which argument.
Extracted(b, s) ==
  CASE b = "file_search"    -> fileSearchMatch(s) # <<>>
    [] b = "web_search"     -> searchMatch(s) # <<>>
    [] b = "code_execution" -> codeMatch(s) # <<>>
    [] b = "calculation"    -> expression(s) # <<>>
    [] b = "weather"        -> locationMatch(s) # <<>>
    [] OTHER                -> FALSE
Argument(b, s) ==
  CASE b = "file_search"    -> trim(Group(s, fileSearchMatch(s)))
    [] b = "web_search"     -> trim(Group(s, searchMatch(s)))
    [] b = "code_execution" -> trim(Group(s, codeMatch(s)))
    [] b = "calculation"    -> expression(s)
    [] b = "weather"        -> trim(Group(s, locationMatch(s)))

\* The response of a branch whose extraction failed ("" in the weather
\* branch, which has no else).
ExtractionFailureText(b) ==
  CASE b = "file_search" ->
         "I couldn't understand what you want me to search for in files. Please provide a search query."
    [] b = "web_search" ->
         "I couldn't understand what you want me to search for. Please provide a search query."
    [] b = "code_execution" ->
         "I found code-related keywords but couldn't extract the code. Please provide the code in a code block."
    [] b = "calculation" ->
         "I couldn't find a valid calculation expression in your message."
    [] OTHER -> ""

\* The response templates after the executor settled.
SuccessText(b) ==
  CASE b = "file_search"    -> "File search results for <query>: <results>"
    [] b = "web_search"     -> "Web search results for <query>: <results>"
    [] b = "code_execution" -> "Code execution results: <results>"
    [] b = "calculation"    -> "The result of <expression> is <result>"
    [] b = "weather"        -> "The weather in <location> is <temperature> <unit>, <condition>. Humidity: <humidity>, Wind: <windSpeed>"
FailedText(b) ==
  CASE b = "file_search"    -> "File search failed: <error>"
    [] b = "web_search"     -> "Web search failed: <error>"
    [] b = "code_execution" -> "Code execution failed: <error>"
    [] OTHER                -> SuccessText(b)
ThrownText(b) ==
  CASE b = "file_search"    -> "I couldn't search files: <message>"
    [] b = "web_search"     -> "I couldn't search the web: <message>"
    [] b = "code_execution" -> "I couldn't execute the code: <message>"
    [] b = "calculation"    -> "I couldn't calculate that: <message>"
    [] b = "weather"        -> "I couldn't get the weather for <location>: <message>"

\* A response string: its template and the values interpolated into it.
Response(text, arg, res) == [text |-> text, arg |-> arg, res |-> res]
NoResult == [success |-> FALSE, fields |-> {}, value |-> [kind |-> "none", hundredths |-> 0]]
EmptyResponse == Response("", <<>>, NoResult)

\* calculatorTool.execute: eval(expression) on a string the calculation
\* pattern matched, digits, an operator and digits with optional white space
\* around the operator, and Number(result.toFixed(2)).
DigitValue ==
  [c \in Digits |->
     CASE c = "0" -> 0 [] c = "1" -> 1 [] c = "2" -> 2 [] c = "3" -> 3
       [] c = "4" -> 4 [] c = "5" -> 5 [] c = "6" -> 6 [] c = "7" -> 7
       [] c = "8" -> 8 [] c = "9" -> 9]
NumeralValue(ds, base) ==
  LET f[i \in 0..Len(ds)] == IF i = 0 THEN 0 ELSE f[i - 1] * base + DigitValue[ds[i]]
  IN f[Len(ds)]

\* A numeral of several digits that starts with 0: a syntax error of
\* strict-mode code, a legacy octal (or decimal, with a digit 8 or 9)
\* literal otherwise.
LeadingZero(ds) == Len(ds) > 1 /\ ds[1] = "0"
LiteralValue(ds) ==
  IF LeadingZero(ds) /\ \A i \in 1..Len(ds) : DigitValue[ds[i]] < 8
  THEN NumeralValue(ds, 8)
  ELSE NumeralValue(ds, 10)

\* The operands and the operator of the expression.
Operands(e) ==
  LET n  == RunLen(e, Digits, 1)
      o  == n + 1 + RunLen(e, Spaces, n + 1)
      b  == o + 1 + RunLen(e, Spaces, o + 1)
  IN [left |-> SubSeq(e, 1, n), op |-> e[o], right |-> SubSeq(e, b, Len(e))]

\* A number as Number(x.toFixed(2)) leaves it: in hundredths, or one of the
\* non-finite values of a division by zero.
NumberValue(h) == [kind |-> "number", hundredths |-> h]
NoValue == [kind |-> "none", hundredths |-> 0]
\* The hundredths nearest to the quotient n / d of two naturals (d > 0),
\* the larger on a tie of the exact quotient.
RoundedQuotient(n, d) == (200 * n + d) \div (2 * d)
Arithmetic(a, op, b) ==
  CASE op = "+" -> NumberValue(100 * (a + b))
    [] op = "-" -> NumberValue(100 * (a - b))
    [] op = "*" -> NumberValue(100 * a * b)
    [] op = "/" -> IF b # 0 THEN NumberValue(RoundedQuotient(a, b))
                   ELSE IF a = 0 THEN [kind |-> "NaN", hundredths |-> 0]
                   ELSE [kind |-> "Infinity", hundredths |-> 0]
evalExpression(e) ==
  LET x == Operands(e)
  IN Arithmetic(LiteralValue(x.left), x.op, LiteralValue(x.right))
\* Does eval reject the expression when the calling code is strict?
StrictSyntaxError(e) ==
  LET x == Operands(e) IN LeadingZero(x.left) \/ LeadingZero(x.right)

\* How the executors registered at module load can settle, and what they
\* return: get_weather returns its mock record; calculate returns what eval
\* computes, or throws on a numeral with a leading zero when the build runs
\* it as strict code; the three wrappers catch and return success:false.
ToolOutcomes(name, arg) ==
  CASE name = "get_weather" -> {"ok"}
    [] name = "calculate"   -> IF StrictSyntaxError(arg) THEN {"ok", "throw"} ELSE {"ok"}
    [] OTHER                -> {"ok", "fail"}
ToolResult(name, arg, outcome) ==
  CASE name = "get_weather" ->
         [success |-> TRUE,
          fields |-> {"location", "temperature", "unit", "condition", "humidity", "windSpeed"},
          value |-> NoValue]
    [] name = "calculate" ->
         [success |-> TRUE, fields |-> {"expression", "result"},
          value |-> evalExpression(arg)]
    [] OTHER ->
         IF outcome = "ok"
         THEN [success |-> TRUE, fields |-> {"success", "results"}, value |-> NoValue]
         ELSE [success |-> FALSE, fields |-> {"success", "error"}, value |-> NoValue]

(***************************************************************************)
(*                              Messages                                   *)
(* A message is written from at most MaxLen lexemes of one vocabulary; a   *)
(* single space separates two lexemes that would otherwise run together    *)
(* into one word.                                                          *)
(***************************************************************************)

MaxLen == 3

SearchLexemes ==
  {<<"s", "e", "a", "r", "c", "h">>,
   <<"l", "o", "o", "k">>,
   <<"f", "o", "r">>,
   <<"u", "p">>,
   <<"f", "i", "l", "e", "s">>,
   <<"d", "o", "c", "u", "m", "e", "n", "t", "s">>,
   <<"w", "e", "b">>,
   <<"x">>}
CodeLexemes ==
  {<<Backtick, Backtick, Backtick, "\n">>,
   <<Backtick, Backtick, Backtick, "p", "y", "\n">>,
   <<Backtick, Backtick, Backtick>>,
   <<"x", "\n", Backtick, Backtick, Backtick>>,
   <<" ", "y", " ", "\n", Backtick, Backtick, Backtick>>,
   <<"x">>,
   <<"f", "i", "n", "d">>}
WeatherLexemes ==
  {<<"W", "e", "a", "t", "h", "e", "r">>,
   <<"t", "e", "m", "p", "e", "r", "a", "t", "u", "r", "e">>,
   <<"i", "n">>,
   <<"T", "o", "k", "y", "o">>,
   <<".">>,
   <<"\n">>,
   <<"c", "o", "d", "e">>}
CalcLexemes ==
  {<<"C", "a", "l", "c", "u", "l", "a", "t", "e">>,
   <<"m", "a", "t", "h">>,
   <<"1", "5">>,
   <<" ", "*", " ", "2", "3">>,
   <<"2", "3">>,
   <<"-">>,
   <<"0", "7">>}
IntentLexemes ==
  {<<"f", "i", "l", "e">>,
   <<"s", "e", "a", "r", "c", "h">>,
   <<"p", "y", "t", "h", "o", "n">>,
   <<"1", "+", "2">>,
   <<"t", "e", "m", "p", "e", "r", "a", "t", "u", "r", "e">>,
   <<"w", "e", "a", "t", "h", "e", "r">>,
   <<"h", "e", "l", "l", "o">>}

Vocabularies == {SearchLexemes, CodeLexemes, WeatherLexemes, CalcLexemes, IntentLexemes}

\* The string written from a lexeme sequence.
Join(ls) ==
  LET Sep(a, b) == IF a # <<>> /\ a[Len(a)] \in WordChars /\ b[1] \in WordChars
                   THEN <<" ">> ELSE <<>>
      f[i \in 0..Len(ls)] ==
        IF i = 0 THEN <<>>
        ELSE LET prev == f[i - 1] IN prev \o Sep(prev, ls[i]) \o ls[i]
  IN f[Len(ls)]

Messages ==
  UNION {{Join(ls) : ls \in UNION {[1..n -> V] : n \in 0..MaxLen}} : V \in Vocabularies}

\* The registries runAgent can find: empty before any tool module is
\* loaded, or the tools registered at module load.
RegistryChoices == {<<>>, StartupTools}

NoCall == [name |-> "none", arg |-> <<>>]

AgentInit ==
  /\ message \in Messages
  /\ pc = "start"
  /\ branch = "none"
  /\ pending = NoCall
  /\ response = EmptyResponse
  /\ toolCalls = <<>>
  /\ toolResults = <<>>
  /\ errorField = ""
  /\ executed = <<>>
  /\ invoked = <<>>
  /\ threw = <<>>

\* The content of the user message passed to model.invoke, lower-cased.
userContent_Lowered(m) == toLowerCase(m)

\* The content of the user message passed to model.invoke.
userContent(m) == m

\* The dispatch that executes the tool of the matched intent without
\* looking it up in the registry.
Dispatch_Unchecked ==
  /\ pc = "start"
  /\ LET b == Branch(message)
     IN /\ branch' = b
        /\ IF b = "fallback"
           THEN /\ pc' = "invoking"
                /\ invoked' = Append(invoked, userContent(message))
                /\ UNCHANGED <<pending, response, executed>>
           ELSE IF ~Extracted(b, message)
           THEN /\ pc' = "done"
                /\ response' = Response(ExtractionFailureText(b), <<>>, NoResult)
                /\ UNCHANGED <<pending, executed, invoked>>
           ELSE /\ pc' = "executing"
                /\ pending' = [name |-> ToolNameOf(b), arg |-> Argument(b, message)]
                /\ executed' = Append(executed, pending')
                /\ UNCHANGED <<response, invoked>>
  /\ UNCHANGED <<message, toolCalls, toolResults, errorField, threw, regVars, clientVars,
                 orchVars, parseVars, extVars>>

\* runAgent from its call to its first suspension or its return: the guards,
\* the branch, the extraction and the call of the executor.
Dispatch ==
  /\ pc = "start"
  /\ LET b == Branch(message)
         found == IndexOf(getAll(tools), ToolNameOf(b)) # 0
     IN /\ branch' = b
        /\ IF b = "fallback"
           THEN /\ pc' = "invoking"
                /\ invoked' = Append(invoked, userContent(message))
                /\ UNCHANGED <<pending, response, executed>>
           ELSE IF ~Extracted(b, message)
           THEN /\ pc' = "done"
                /\ response' = Response(ExtractionFailureText(b), <<>>, NoResult)
                /\ UNCHANGED <<pending, executed, invoked>>
           ELSE IF ~found
           THEN /\ pc' = "done"
                /\ UNCHANGED <<pending, response, executed, invoked>>
           ELSE /\ pc' = "executing"
                /\ pending' = [name |-> ToolNameOf(b), arg |-> Argument(b, message)]
                /\ executed' = Append(executed, pending')
                /\ UNCHANGED <<response, invoked>>
  /\ UNCHANGED <<message, toolCalls, toolResults, errorField, threw, regVars, clientVars,
                 orchVars, parseVars, extVars>>

\* The branch without its own try/catch: an exception of the executor
\* reaches the outer catch of runAgent.
ToolSettles_OuterCatch(outcome) ==
  /\ pc = "executing"
  /\ outcome \in ToolOutcomes(pending.name, pending.arg)
  /\ pc' = "done"
  /\ IF outcome = "throw"
     THEN /\ response' = Response("I apologize, but I encountered an error: <message>", <<>>, NoResult)
          /\ errorField' = "<message>"
          /\ threw' = Append(threw, pending.name)
          /\ UNCHANGED <<toolCalls, toolResults>>
     ELSE /\ response' = Response(IF ToolResult(pending.name, pending.arg, outcome).success
                                  THEN SuccessText(branch) ELSE FailedText(branch),
                                  pending.arg, ToolResult(pending.name, pending.arg, outcome))
          /\ toolCalls' = Append(toolCalls, [name |-> pending.name, parameters |-> pending.arg])
          /\ toolResults' = Append(toolResults,
                               [name |-> pending.name, result |-> ToolResult(pending.name, pending.arg, outcome)])
          /\ UNCHANGED <<threw, errorField>>
  /\ pending' = NoCall
  /\ UNCHANGED <<message, branch, executed, invoked, regVars, clientVars, orchVars, parseVars, extVars>>

\* "await tool.execute(...)" settles: the executor returned (ok), returned
\* success:false (fail) or threw.
ToolSettles(outcome) ==
  /\ pc = "executing"
  /\ outcome \in ToolOutcomes(pending.name, pending.arg)
  /\ pc' = "done"
  /\ IF outcome = "throw"
     THEN /\ response' = Response(ThrownText(branch), pending.arg, NoResult)
          /\ threw' = Append(threw, pending.name)
          /\ UNCHANGED <<toolCalls, toolResults, errorField>>
     ELSE /\ response' = Response(IF ToolResult(pending.name, pending.arg, outcome).success
                                  THEN SuccessText(branch) ELSE FailedText(branch),
                                  pending.arg, ToolResult(pending.name, pending.arg, outcome))
          /\ toolCalls' = Append(toolCalls, [name |-> pending.name, parameters |-> pending.arg])
          /\ toolResults' = Append(toolResults,
                               [name |-> pending.name, result |-> ToolResult(pending.name, pending.arg, outcome)])
          /\ UNCHANGED <<threw, errorField>>
  /\ pending' = NoCall
  /\ UNCHANGED <<message, branch, executed, invoked, regVars, clientVars, orchVars, parseVars, extVars>>

\* "await this.model.invoke(...)" resolves: the response is the model's content.
ModelReturns ==
  /\ pc = "invoking"
  /\ pc' = "done"
  /\ response' = Response("<content>", invoked[Len(invoked)], NoResult)
  /\ UNCHANGED <<message, branch, pending, toolCalls, toolResults, errorField,
                 executed, invoked, threw, regVars, clientVars, orchVars, parseVars, extVars>>

\* The catch that also lowers the configured token budget for the requests
\* to come.
ModelThrows_LowersBudget ==
  /\ pc = "invoking"
  /\ pc' = "done"
  /\ response' = Response("I apologize, but I encountered an error: <message>", <<>>, NoResult)
  /\ errorField' = "<message>"
  /\ simpleConfig' = [simpleConfig EXCEPT !.maxOutputTokens = "0"]
  /\ UNCHANGED <<message, branch, pending, toolCalls, toolResults, executed,
                 invoked, threw, regVars, clientVars, orchVars, parseVars, options, flagVars,
                 simpleModel, configLog, oAttempt>>

\* "await this.model.invoke(...)" rejects: the outer catch returns the
\* apology with the error field and without toolCalls / toolResults.
ModelThrows ==
  /\ pc = "invoking"
  /\ pc' = "done"
  /\ response' = Response("I apologize, but I encountered an error: <message>", <<>>, NoResult)
  /\ errorField' = "<message>"
  /\ UNCHANGED <<message, branch, pending, toolCalls, toolResults, executed,
                 invoked, threw, regVars, clientVars, orchVars, parseVars, extVars>>

(***************************************************************************)
(*                           AgentAPI.runAgent                             *)
(* Three AgentAPI classes serve a request: the Responses API orchestrator  *)
(* (first call through ResponsesClient.ask, tool loop, the results         *)
(* returned serialized), the Chat Completions orchestrator (first call,    *)
(* tool loop, second call) and the wrapper of SimpleAgent.                 *)
(***************************************************************************)

\* Bound: the number of tool calls in one upstream response.
MaxBatch == 2

Variants == {"responses", "chat", "simple"}

\* The function names the model can ask for, and its arguments as it wrote
\* them: an object the executor's schema accepts, an object it rejects, or
\* text that is not JSON.
FunctionNames == {"calculate", "web_search", "weather_workflow", "search_workflow",
                  "unknown_tool"}
ArgumentKinds == {"valid", "invalid", "malformed"}
ToolCallOf(i, n, a) == [id |-> i, name |-> n, arguments |-> a]
Batches ==
  UNION {{[i \in 1..n |-> ToolCallOf(i, f[i][1], f[i][2])] :
            f \in [1..n -> FunctionNames \X ArgumentKinds]} : n \in 0..MaxBatch}
\* The first upstream response as the orchestrator reads it: is there a
\* tool-call list, and which.
NoResponse == [present |-> FALSE, calls |-> <<>>]
FirstResponses == {NoResponse} \cup {[present |-> TRUE, calls |-> b] : b \in Batches}

\* The registries the orchestrator can find: every tool module loaded, or
\* only the two custom tools.
CustomTools == SelectSeq(StartupTools, LAMBDA t : t.name \in {"calculate", "get_weather"})
OrchRegistries == {StartupTools, CustomTools}

\* The messages of the requests.
OrchMessages ==
  {<<"h","e","l","l","o">>,
   <<"1","5"," ","*"," ","2","3">>,
   <<"0","7","-","2","3">>,
   <<"W","e","a","t","h","e","r"," ","i","n"," ","T","o","k","y","o">>,
   <<"s","e","a","r","c","h"," ","x">>}

\* "if (response.toolCalls && response.toolCalls.length > 0)" and
\* "if (responseMessage.tool_calls)".
entersToolLoop(variant, resp) ==
  IF variant = "chat" THEN resp.present
  ELSE resp.present /\ Len(resp.calls) > 0

\* JSON.parse(toolCall.function.arguments) of the Chat Completions loop: does
\* it return?  (The Responses loop takes toolCall.arguments as they are.)
argumentsParse(variant, a) == variant # "chat" \/ a # "malformed"

\* The chain that tests the workflow and hosted names before the registry.
Resolve_RegistryLast(variant, n) ==
  IF n \in {"weather_workflow", "search_workflow"} THEN "workflow"
  ELSE IF variant = "responses" /\ n \in {"web_search", "code_interpreter", "file_search"}
       THEN "hosted"
  ELSE IF get(tools, n) # Undefined THEN "registry"
  ELSE "unknown"

\* The chain of the loop body: registry, the two workflows, the hosted
\* names (Responses loop only), unknown.
Resolve(variant, n) ==
  IF get(tools, n) # Undefined THEN "registry"
  ELSE IF n \in {"weather_workflow", "search_workflow"} THEN "workflow"
  ELSE IF variant = "responses" /\ n \in {"web_search", "code_interpreter", "file_search"}
       THEN "hosted"
  ELSE "unknown"

\* How tool.execute(functionArgs) of a registered tool settles: every
\* executor parses its arguments first and throws on a rejected object;
\* calculate throws on an expression eval rejects; the three wrappers of
\* hosted tools catch and return success:false.
executeOutcomes(n, a) ==
  IF a # "valid" THEN {"throw"}
  ELSE CASE n = "calculate" -> {"ok", "throw"}
         [] n \in {"web_search", "code_interpreter", "file_search"} -> {"ok", "fail"}
         [] OTHER -> {"ok"}
\* How the inner capability of a workflow settles (weatherTool.execute,
\* searchTool.execute): it parses the arguments the handler passes on.
workflowToolOutcomes(a) == IF a = "valid" THEN {"ok"} ELSE {"throw"}

\* The results pushed by the loop.
Payload(n, ok)      == [type |-> "payload", name |-> n, success |-> ok]
HostedResult(n)     == [type |-> "hosted", name |-> n, success |-> TRUE]
UnknownToolError(n) == [type |-> "error", name |-> n, success |-> FALSE]
\* An element of toolResults: the result itself (Responses loop) or the
\* tool message with the id of its call (Chat Completions loop); index is
\* history, the iteration that pushed it.
Entry(variant, i, call, r) ==
  [index |-> i, tool_call_id |-> IF variant = "chat" THEN call.id ELSE Null, result |-> r]

\* toolResults.push(...) that puts the result in front.
push_Front(rs, e) == <<e>> \o rs

\* toolResults.push(...)
push(rs, e) == Append(rs, e)

\* A serialization that keeps the first result only.
stringify_First(rs) == IF rs = <<>> THEN <<>> ELSE <<rs[1].result>>

\* JSON.stringify(toolResults, null, 2): the results, in order.
stringify(rs) == [i \in 1..Len(rs) |-> rs[i].result]

\* The messages of the first call of the Chat Completions orchestrator.
initialMessages(m) == [phase |-> "initial", user |-> m, request |-> <<>>, results |-> <<>>]

\* The messages of the second call without the tool messages.
finalMessages_NoResults(m, b, rs) == [phase |-> "final", user |-> m, request |-> b, results |-> <<>>]

\* The messages of the second call: the user message, the model's message
\* with its tool calls, the tool messages.
finalMessages(m, b, rs) == [phase |-> "final", user |-> m, request |-> b, results |-> rs]

\* The wrapper that returns whatever SimpleAgent returned.
wrapperThrows_Never(err) == FALSE

\* "if (response.error) throw new Error(response.error)"
wrapperThrows(err) == err # ""

NoTarget == [kind |-> "none", name |-> "none", step |-> "none"]
NoReturn == [kind |-> "none", results |-> <<>>, response |-> EmptyResponse]
ReturnContent(of)  == [kind |-> of, results |-> <<>>, response |-> EmptyResponse]
ReturnResults(rs)  == [kind |-> "results", results |-> rs, response |-> EmptyResponse]
ReturnResponse(r)  == [kind |-> "response", results |-> <<>>, response |-> r]

OrchIdle ==
  /\ oVariant = "responses"
  /\ oPc = "start"
  /\ oFirst = NoResponse
  /\ oBatch = <<>>
  /\ oIndex = 1
  /\ oTarget = NoTarget
  /\ oResults = <<>>
  /\ oUpstream = <<>>
  /\ oTrace = <<>>
  /\ oThrown = <<>>
  /\ oReturn = NoReturn

\* The request is rejected: the catch of runAgent rethrows.
Reject(cause) ==
  /\ oPc' = "rejected"
  /\ oThrown' = Append(oThrown, [at |-> oIndex, cause |-> cause])
  /\ oTarget' = NoTarget
  /\ UNCHANGED <<oVariant, oFirst, oBatch, oIndex, oResults, oUpstream, oTrace, oReturn>>

\* The loop that hands the results back to the model as a new first call,
\* whose response may ask for tools again.
Proceed_AsksAgain(b, rs, k) ==
  /\ oResults' = rs
  /\ oIndex' = k
  /\ oTarget' = NoTarget
  /\ IF k <= Len(b)
     THEN /\ oPc' = "loop"
          /\ UNCHANGED <<oUpstream, oReturn>>
     ELSE IF oVariant = "responses"
     THEN /\ oPc' = "resolved"
          /\ oReturn' = ReturnResults(stringify(rs))
          /\ UNCHANGED oUpstream
     ELSE /\ oPc' = "asking"
          /\ oUpstream' = Append(oUpstream, finalMessages(message, b, rs))
          /\ UNCHANGED oReturn

\* The loop after iteration k - 1 pushed its result: the next iteration, or
\* after the last one the serialized results are returned (Responses) or the
\* second call is made (Chat Completions).
Proceed(b, rs, k) ==
  /\ oResults' = rs
  /\ oIndex' = k
  /\ oTarget' = NoTarget
  /\ IF k <= Len(b)
     THEN /\ oPc' = "loop"
          /\ UNCHANGED <<oUpstream, oReturn>>
     ELSE IF oVariant = "responses"
     THEN /\ oPc' = "resolved"
          /\ oReturn' = ReturnResults(stringify(rs))
          /\ UNCHANGED oUpstream
     ELSE /\ oPc' = "synthesizing"
          /\ oUpstream' = Append(oUpstream, finalMessages(message, b, rs))
          /\ UNCHANGED oReturn

\* runAgent after the first response arrived.
HandleFirstResponse(resp) ==
  IF entersToolLoop(oVariant, resp)
  THEN /\ oFirst' = resp
       /\ oBatch' = resp.calls
       /\ Proceed(resp.calls, <<>>, 1)
       /\ UNCHANGED <<oVariant, oTrace, oThrown>>
  ELSE /\ oFirst' = resp
       /\ oPc' = "resolved"
       /\ oReturn' = ReturnContent("initial")
       /\ UNCHANGED <<oVariant, oBatch, oIndex, oTarget, oResults, oUpstream, oTrace, oThrown>>

\* The Responses orchestrator calls responsesClient.ask with the two
\* workflow tools; the steps of ask are those of ResponsesClient, caller 1.
AskStarts ==
  /\ oVariant = "responses"
  /\ oPc = "start"
  /\ started = 0
  /\ StartAsk(1, WorkflowTools)

\* ask settles: a create call or responses.create rejected, parseResponse
\* threw, or it returned the parsed response.
AskSettles ==
  /\ oVariant = "responses"
  /\ oPc = "start"
  /\ \/ /\ procs[1].pc = "rejected"
        /\ Reject("provisioning")
     \/ /\ procs[1].pc = "request"
        /\ \/ \E cause \in {"upstream", "parse"} : Reject(cause)
           \/ \E resp \in FirstResponses :
                /\ \A i \in 1..Len(resp.calls) : resp.calls[i].arguments # "malformed"
                /\ HandleFirstResponse(resp)
  /\ procs' = [procs EXCEPT ![1] = IdleProc]
  /\ UNCHANGED <<config, containerId, fileSearchContainerId, vectorStoreId,
                 created, createCalls, sent, started, regVars, agentVars, parseVars, extVars>>

\* The hybrid agent's hosted attempt: "none" is the plain Chat Completions
\* agent, "unavailable" the hybrid agent whose constructor could not build the
\* hosted agent (useAgentAPI false), "idle" the one whose constructor could.
AttemptOutcomes == {"output", "empty", "throw"}

\* tryAgentAPI without its catch.
attemptResult_NoCatch(outcome) ==
  CASE outcome = "output" -> "finalOutput"
    [] outcome = "empty"  -> "null"
    [] OTHER              -> "throw"

\* tryAgentAPI once run() settled: the final output when it is truthy, null
\* when the result or its final output is empty, null from the catch.
attemptResult(outcome) ==
  IF outcome = "output" THEN "finalOutput" ELSE "null"

\* tryAgentAPI calls run(this.agent, message).
AttemptStarts ==
  /\ oVariant = "chat"
  /\ oPc = "start"
  /\ oAttempt = "idle"
  /\ oPc' = "attempting"
  /\ oAttempt' = "running"
  /\ UNCHANGED <<oVariant, oFirst, oBatch, oIndex, oTarget, oResults, oUpstream, oTrace,
                 oThrown, oReturn, regVars, clientVars, agentVars, parseVars,
                 options, flagVars, simpleVars>>

\* run() settled: runAgent returns the final output, or goes on to the first
\* Chat Completions call.
AttemptSettles(outcome) ==
  /\ oPc = "attempting"
  /\ oAttempt' = outcome
  /\ LET r == attemptResult(outcome)
     IN CASE r = "finalOutput" ->
               /\ oPc' = "resolved"
               /\ oReturn' = ReturnContent("agent")
               /\ UNCHANGED <<oVariant, oFirst, oBatch, oIndex, oTarget, oResults,
                              oUpstream, oTrace, oThrown>>
          [] r = "null" ->
               /\ oPc' = "asking"
               /\ oUpstream' = Append(oUpstream, initialMessages(message))
               /\ UNCHANGED <<oVariant, oFirst, oBatch, oIndex, oTarget, oResults,
                              oTrace, oThrown, oReturn>>
          [] OTHER -> Reject("agent")
  /\ UNCHANGED <<regVars, clientVars, agentVars, parseVars, options, flagVars, simpleVars>>

\* The Chat Completions orchestrator makes its first call; in the hybrid
\* agent tryAgentAPI returned null at once.
ChatAsks ==
  /\ oVariant = "chat"
  /\ oPc = "start"
  /\ oAttempt \in {"none", "unavailable"}
  /\ oPc' = "asking"
  /\ oUpstream' = Append(oUpstream, initialMessages(message))
  /\ UNCHANGED <<oVariant, oFirst, oBatch, oIndex, oTarget, oResults, oTrace, oThrown, oReturn,
                 regVars, clientVars, agentVars, parseVars, extVars>>

\* The first call settles.
ChatFirstSettles ==
  /\ oPc = "asking"
  /\ \/ Reject("upstream")
     \/ \E resp \in FirstResponses : HandleFirstResponse(resp)
  /\ UNCHANGED <<regVars, clientVars, agentVars, parseVars, extVars>>

\* One iteration of the loop up to its await, or to its end when the branch
\* taken does not await.
BeginToolCall ==
  /\ oPc = "loop"
  /\ LET call == oBatch[oIndex]
         via  == Resolve(oVariant, call.name)
     IN IF ~argumentsParse(oVariant, call.arguments)
        THEN Reject("arguments")
        ELSE IF via \in {"registry", "workflow"}
        THEN /\ oPc' = "executing"
             /\ oTarget' = [kind |-> via, name |-> call.name,
                            step |-> IF via = "registry" THEN "execute" ELSE "tool"]
             /\ oTrace' = Append(oTrace, oIndex)
             /\ UNCHANGED <<oVariant, oFirst, oBatch, oIndex, oResults, oUpstream, oThrown, oReturn>>
        ELSE /\ Proceed(oBatch,
                        push(oResults,
                             Entry(oVariant, oIndex, call,
                                   IF via = "hosted" THEN HostedResult(call.name)
                                   ELSE UnknownToolError(call.name))),
                        oIndex + 1)
             /\ UNCHANGED <<oVariant, oFirst, oBatch, oTrace, oThrown>>
  /\ UNCHANGED <<regVars, clientVars, agentVars, parseVars, extVars>>

\* "await tool.execute(functionArgs)" settles.
ExecutorSettles(outcome) ==
  /\ oPc = "executing"
  /\ oTarget.kind = "registry"
  /\ outcome \in executeOutcomes(oTarget.name, oBatch[oIndex].arguments)
  /\ IF outcome = "throw"
     THEN Reject("executor")
     ELSE /\ Proceed(oBatch,
                     push(oResults, Entry(oVariant, oIndex, oBatch[oIndex],
                                          Payload(oTarget.name, outcome = "ok"))),
                     oIndex + 1)
          /\ UNCHANGED <<oVariant, oFirst, oBatch, oTrace, oThrown>>
  /\ UNCHANGED <<regVars, clientVars, agentVars, parseVars, extVars>>

\* runWeatherWorkflow / runSearchWorkflow: the inner capability settles; the
\* workflow goes on to its own model call or the exception leaves it.
WorkflowToolSettles(outcome) ==
  /\ oPc = "executing"
  /\ oTarget.kind = "workflow"
  /\ oTarget.step = "tool"
  /\ outcome \in workflowToolOutcomes(oBatch[oIndex].arguments)
  /\ IF outcome = "throw"
     THEN Reject("workflow_tool")
     ELSE /\ oTarget' = [oTarget EXCEPT !.step = "model"]
          /\ UNCHANGED <<oVariant, oFirst, oPc, oBatch, oIndex, oResults, oUpstream, oTrace,
                         oThrown, oReturn>>
  /\ UNCHANGED <<regVars, clientVars, agentVars, parseVars, extVars>>

\* runWeatherWorkflow / runSearchWorkflow: the model call of the workflow
\* settles; the workflow returns its result or the rejection leaves it.
WorkflowModelSettles(resolved) ==
  /\ oPc = "executing"
  /\ oTarget.kind = "workflow"
  /\ oTarget.step = "model"
  /\ IF ~resolved
     THEN Reject("workflow_model")
     ELSE /\ Proceed(oBatch,
                     push(oResults, Entry(oVariant, oIndex, oBatch[oIndex],
                                          Payload(oTarget.name, TRUE))),
                     oIndex + 1)
          /\ UNCHANGED <<oVariant, oFirst, oBatch, oTrace, oThrown>>
  /\ UNCHANGED <<regVars, clientVars, agentVars, parseVars, extVars>>

\* The second call of the Chat Completions orchestrator settles.
FinalCallSettles(resolved) ==
  /\ oPc = "synthesizing"
  /\ IF resolved
     THEN /\ oPc' = "resolved"
          /\ oReturn' = ReturnContent("final")
          /\ UNCHANGED <<oVariant, oFirst, oBatch, oIndex, oTarget, oResults, oUpstream,
                         oTrace, oThrown>>
     ELSE Reject("upstream")
  /\ UNCHANGED <<regVars, clientVars, agentVars, parseVars, extVars>>

\* The wrapper of SimpleAgent after "await this.simpleAgent.runAgent(...)".
WrapperSettles ==
  /\ oVariant = "simple"
  /\ oPc = "start"
  /\ pc = "done"
  /\ IF wrapperThrows(errorField)
     THEN Reject("upstream")
     ELSE /\ oPc' = "resolved"
          /\ oReturn' = ReturnResponse(response)
          /\ UNCHANGED <<oVariant, oFirst, oBatch, oIndex, oTarget, oResults, oUpstream,
                         oTrace, oThrown>>
  /\ UNCHANGED <<regVars, clientVars, agentVars, parseVars, extVars>>

(***************************************************************************)
(*                     ResponsesClient.parseResponse                       *)
(***************************************************************************)

\* The texts of an output_text part, and JSON.parse on them: the parsed
\* value, or that it throws.
Texts == {"{\"answer\":42}", "42", "null", "The answer is 42", ""}
JSONparse(t) ==
  CASE t = "{\"answer\":42}" -> [ok |-> TRUE,  value |-> "object answer 42"]
    [] t = "42"              -> [ok |-> TRUE,  value |-> "number 42"]
    [] t = "null"            -> [ok |-> TRUE,  value |-> "null"]
    [] OTHER                 -> [ok |-> FALSE, value |-> "none"]

\* The parts of a message output, the tool calls of a tool_calls output and
\* the outputs, as the upstream service can shape them.  payload: the
\* object named after the kind (call.web_search, ...) or, for any other
\* kind, call.function; "absent" when the call has none.
ContentParts ==
  {[type |-> "output_text", text |-> t] : t \in Texts} \cup
  {[type |-> "refusal", text |-> ""]}
CallKinds == {"web_search", "code_interpreter", "file_search", "retrieval",
              "computer_use_preview", "function", "custom_tool"}
HostedKinds == {"web_search", "code_interpreter", "file_search", "retrieval",
                "computer_use_preview"}
Payloads == {"absent", "a", "b"}
RawCalls == [type : CallKinds, payload : Payloads]
RawCallLists == UNION {[1..n -> RawCalls] : n \in 0..MaxBatch}
OutputItem(t, hc, c, ht, tc) ==
  [type |-> t, hasContent |-> hc, content |-> c, hasToolCalls |-> ht, tool_calls |-> tc]
MessageOutputs ==
  {OutputItem("message", FALSE, <<>>, FALSE, <<>>), OutputItem("message", TRUE, <<>>, FALSE, <<>>)}
  \cup {OutputItem("message", TRUE, <<c>>, FALSE, <<>>) : c \in ContentParts}
ToolCallsOutputs ==
  {OutputItem("tool_calls", FALSE, <<>>, FALSE, <<>>)}
  \cup {OutputItem("tool_calls", FALSE, <<>>, TRUE, l) : l \in RawCallLists}
ReasoningOutput == OutputItem("reasoning", FALSE, <<>>, FALSE, <<>>)
OutputItems == MessageOutputs \cup ToolCallsOutputs \cup {ReasoningOutput}
\* response.output: one output, or an array of outputs.
RawOutputs ==
  {[isArray |-> FALSE, items |-> <<x>>] : x \in OutputItems}
  \cup {[isArray |-> TRUE, items |-> <<>>]}
  \cup {[isArray |-> TRUE, items |-> <<x>>] : x \in OutputItems}
  \cup {[isArray |-> TRUE, items |-> <<x, y>>] :
          x \in OutputItems, y \in MessageOutputs \cup {ReasoningOutput}}
  \cup {[isArray |-> TRUE, items |-> <<x, y>>] :
          x \in MessageOutputs \cup {ReasoningOutput}, y \in OutputItems}
NoOutput == [isArray |-> TRUE, items |-> <<>>]
RawResponses ==
  {[present |-> FALSE, hasOutput |-> FALSE, output |-> NoOutput],
   [present |-> TRUE, hasOutput |-> FALSE, output |-> NoOutput]}
  \cup {[present |-> TRUE, hasOutput |-> TRUE, output |-> o] : o \in RawOutputs}

\* What parseResponse returns (a ResponsesResponse with its optional
\* toolCalls and structuredOutput), or that it threw.
Result(o, c, ht, tcs, hs, so) ==
  [outcome |-> o, content |-> c, hasToolCalls |-> ht, toolCalls |-> tcs,
   hasStructuredOutput |-> hs, structuredOutput |-> so]
NotParsed == Result("none", "", FALSE, <<>>, FALSE, "none")
Threw     == Result("throw", "", FALSE, <<>>, FALSE, "none")
Returned(c) == Result("return", c, FALSE, <<>>, FALSE, "none")

\* outputs.find(output => output.type === t): the index of the first such
\* output, 0 for undefined.
find(outputs, t) ==
  IF \E i \in 1..Len(outputs) : outputs[i].type = t
  THEN CHOOSE i \in 1..Len(outputs) :
         outputs[i].type = t /\ \A j \in 1..(i - 1) : outputs[j].type # t
  ELSE 0

\* A message branch that returns the structured value in place of the text.
messageResult_ValueAsContent(text) ==
  IF JSONparse(text).ok
  THEN Result("return", JSONparse(text).value, FALSE, <<>>, TRUE, JSONparse(text).value)
  ELSE Result("return", text, FALSE, <<>>, FALSE, "none")

\* The branch of an output_text part: "try { JSON.parse(content.text) ... }
\* catch { ... }".
messageResult(text) ==
  IF JSONparse(text).ok
  THEN Result("return", text, FALSE, <<>>, TRUE, JSONparse(text).value)
  ELSE Result("return", text, FALSE, <<>>, FALSE, "none")

\* The callback of tool_calls.map: it reads a property of call.<kind>, or
\* of call.function for every other kind; does that throw?
callThrows(call) == call.payload = "absent"
\* call.function.name
functionName(payload) == IF payload = "a" THEN "calculate" ELSE "get_weather"
ToolCallRecord(n, a, t) == [name |-> n, arguments |-> a, type |-> t]

\* A callback that decodes every call as a function call.
mapCall_AsFunction(call) ==
  ToolCallRecord(functionName(call.payload), call.payload, "function_call")

\* The callback of tool_calls.map on a call that has its payload.
mapCall(call) ==
  CASE call.type = "web_search" ->
         ToolCallRecord("web_search", call.payload, "web_search_call")
    [] call.type = "code_interpreter" ->
         ToolCallRecord("code_interpreter", call.payload, "code_interpreter_call")
    [] call.type = "file_search" ->
         ToolCallRecord("file_search", call.payload, "file_search_call")
    [] call.type = "retrieval" ->
         ToolCallRecord("retrieval", call.payload, "retrieval_call")
    [] call.type = "computer_use_preview" ->
         ToolCallRecord("computer_use_preview", call.payload, "computer_use_call")
    [] OTHER ->
         ToolCallRecord(functionName(call.payload), call.payload, "function_call")

parseResponse_ToolCallsFirst(r) ==
  IF ~r.present \/ ~r.hasOutput
  THEN Returned("No response from OpenAI")
  ELSE
    LET outputs == r.output.items
        m == find(outputs, "message")
        t == find(outputs, "tool_calls")
    IN IF t # 0 /\ outputs[t].hasToolCalls
       THEN LET calls == outputs[t].tool_calls
            IN IF \E i \in 1..Len(calls) : callThrows(calls[i])
               THEN Threw
               ELSE Result("return", "Tool calls: <names>", TRUE,
                           [i \in 1..Len(calls) |-> mapCall(calls[i])], FALSE, "none")
       ELSE IF /\ m # 0
               /\ outputs[m].hasContent
               /\ Len(outputs[m].content) > 0
               /\ outputs[m].content[1].type = "output_text"
       THEN messageResult(outputs[m].content[1].text)
       ELSE Returned("No response content available")
parseResponse(r) ==
  IF ~r.present \/ ~r.hasOutput
  THEN Returned("No response from OpenAI")
  ELSE
    LET outputs == r.output.items
        m == find(outputs, "message")
        t == find(outputs, "tool_calls")
    IN IF /\ m # 0
          /\ outputs[m].hasContent
          /\ Len(outputs[m].content) > 0
          /\ outputs[m].content[1].type = "output_text"
       THEN messageResult(outputs[m].content[1].text)
       ELSE IF t # 0 /\ outputs[t].hasToolCalls
       THEN LET calls == outputs[t].tool_calls
            IN IF \E i \in 1..Len(calls) : callThrows(calls[i])
               THEN Threw
               ELSE Result("return", "Tool calls: <names>", TRUE,
                           [i \in 1..Len(calls) |-> mapCall(calls[i])], FALSE, "none")
       ELSE Returned("No response content available")

ParseIdle ==
  /\ raw = [present |-> FALSE, hasOutput |-> FALSE, output |-> NoOutput]
  /\ parsed = NotParsed

(***************************************************************************)
(*        FeatureFlagManager, SimpleAgent.constructor / updateConfig       *)
(***************************************************************************)

\* Bound: the number of setting operations (flag writes, updateConfig calls).
MaxSettingOps == 2

FlagKeys == {"enableBuiltInTools", "enableJsonSchemaOutput"}
\* Partial<FeatureFlags>: the keys given, with their values.
FlagUpdates == UNION {[K -> BOOLEAN] : K \in SUBSET FlagKeys}

\* FeatureFlagManager.updateFlags: "{ ...this.flags, ...updates }"
updateFlags(f, u) == [k \in FlagKeys |-> IF k \in DOMAIN u THEN u[k] ELSE f[k]]
OnlyBuiltIn(b) == [k \in {"enableBuiltInTools"} |-> b]
\* FeatureFlagManager.enableBuiltInTools / disableBuiltInTools
enableBuiltInTools(f)  == updateFlags(f, OnlyBuiltIn(TRUE))
disableBuiltInTools(f) == updateFlags(f, OnlyBuiltIn(FALSE))

\* A toggle that switches the flag on.
toggleBuiltInTools_Enable(f) == updateFlags(f, OnlyBuiltIn(TRUE))

\* FeatureFlagManager.toggleBuiltInTools
toggleBuiltInTools(f) == updateFlags(f, OnlyBuiltIn(~f.enableBuiltInTools))

SettingOps == Len(flagLog) + Len(configLog)

\* AgentAPI.enableBuiltInTools / disableBuiltInTools / toggleBuiltInTools.
FlagOps == {"enableBuiltInTools", "disableBuiltInTools", "toggleBuiltInTools"}
FlagOp(op) ==
  /\ SettingOps < MaxSettingOps + 1
  /\ flags' = CASE op = "enableBuiltInTools"  -> enableBuiltInTools(flags)
                [] op = "disableBuiltInTools" -> disableBuiltInTools(flags)
                [] op = "toggleBuiltInTools"  -> toggleBuiltInTools(flags)
  /\ flagLog' = Append(flagLog, [op |-> op, before |-> flags])
  /\ UNCHANGED <<regVars, clientVars, agentVars, orchVars, parseVars, options, simpleVars,
                 oAttempt>>

\* featureFlags.updateFlags(updates)
UpdateFlags(u) ==
  /\ SettingOps < MaxSettingOps + 1
  /\ flags' = updateFlags(flags, u)
  /\ flagLog' = Append(flagLog, [op |-> "updateFlags", before |-> flags])
  /\ UNCHANGED <<regVars, clientVars, agentVars, orchVars, parseVars, options, simpleVars,
                 oAttempt>>

\* Partial<SimpleAgentOptions>: per key "absent" (no such key), "undefined"
\* or the value written as text.
ConfigKeys == {"temperature", "maxOutputTokens", "topP"}
PartialConfigs ==
  [temperature : {"absent", "undefined", "0.2", "1"},
   maxOutputTokens : {"absent", "256"},
   topP : {"absent", "0.9"}]
\* Reading a key of an object.
read(v) == IF v = "absent" THEN "undefined" ELSE v

\* SimpleAgent.constructor: this.config and the parameters of new ChatOpenAI
\* (no temperature among them).
constructedConfig(c) ==
  [temperature |-> "1", maxOutputTokens |-> read(c.maxOutputTokens), topP |-> read(c.topP)]
constructedModel(cfg) ==
  [temperature |-> "absent", maxTokens |-> cfg.maxOutputTokens, topP |-> cfg.topP]
\* SimpleAgent.updateConfig: "{ ...this.config, ...newConfig }" and the
\* parameters of the new ChatOpenAI.
mergedConfig(cfg, nc) == [k \in ConfigKeys |-> IF nc[k] = "absent" THEN cfg[k] ELSE nc[k]]
updatedModel(cfg) ==
  [temperature |-> cfg.temperature, maxTokens |-> cfg.maxOutputTokens, topP |-> cfg.topP]

UpdateConfig(nc) ==
  /\ SettingOps < MaxSettingOps + 1
  /\ simpleConfig' = mergedConfig(simpleConfig, nc)
  /\ simpleModel' = updatedModel(mergedConfig(simpleConfig, nc))
  /\ configLog' = Append(configLog, nc)
  /\ UNCHANGED <<regVars, clientVars, agentVars, orchVars, parseVars, options, flagVars,
                 oAttempt>>

\* The settings as the modules' construction leaves them, no request
\* options.
DefaultFlags == [enableBuiltInTools |-> TRUE, enableJsonSchemaOutput |-> FALSE]
DefaultSimpleConfig == [temperature |-> "1", maxOutputTokens |-> "undefined", topP |-> "undefined"]
DefaultSimpleModel  == [temperature |-> "absent", maxTokens |-> "undefined", topP |-> "undefined"]
FlagsIdle  == flags = DefaultFlags /\ flagLog = <<>>
SimpleIdle ==
  /\ simpleConfig = DefaultSimpleConfig
  /\ simpleModel = DefaultSimpleModel
  /\ configLog = <<>>
ExtIdle == options = NoOptions /\ FlagsIdle /\ SimpleIdle /\ oAttempt = "none"

\* ask: "return this.parseResponse(response)".
ParseResponse ==
  /\ parsed = NotParsed
  /\ parsed' = parseResponse(raw)
  /\ UNCHANGED <<raw, regVars, clientVars, agentVars, orchVars, extVars>>

(***************************************************************************)
(*                           Specifications                                *)
(***************************************************************************)

\* The variables a specification does not move.
RegIdle ==
  /\ tools = StartupTools
  /\ regLog = StartupTools
ClientIdle ==
  /\ config = [enableBuiltInTools |-> TRUE, enableStructuredOutput |-> FALSE,
               enableFileSearch |-> FALSE, enableRetrieval |-> FALSE,
               enableComputerUse |-> FALSE]
  /\ containerId = Null
  /\ fileSearchContainerId = Null
  /\ vectorStoreId = Null
  /\ procs = [p \in Procs |-> IdleProc]
  /\ created = [k \in Kinds |-> 0]
  /\ createCalls = [k \in Kinds |-> 0]
  /\ sent = <<>>
  /\ started = 0
AgentIdle ==
  /\ message = <<>>
  /\ pc = "start"
  /\ branch = "none"
  /\ pending = NoCall
  /\ response = EmptyResponse
  /\ toolCalls = <<>>
  /\ toolResults = <<>>
  /\ errorField = ""
  /\ executed = <<>>
  /\ invoked = <<>>
  /\ threw = <<>>

\* ToolRegistry under any sequence of register calls.
RegistryInit == RegInit /\ ClientIdle /\ AgentIdle /\ OrchIdle /\ ParseIdle /\ ExtIdle
RegistryNext == \E n \in RegNames, i \in 1..MaxImpl : Register(n, i)
RegistrySpec == RegistryInit /\ [][RegistryNext]_vars

\* ResponsesClient under concurrent callers.
Init == RegIdle /\ ClientInit /\ AgentIdle /\ OrchIdle /\ ParseIdle /\ ExtIdle
Next ==
  \/ \E p \in Procs, ct \in CustomToolChoices : StartAsk(p, ct)
  \/ \E p \in Procs, op \in ResourceOps : StartResourceOp(p, op)
  \/ \E p \in Procs : CreateReturns(p)
  \/ \E p \in Procs : CreateFails(p)
  \/ \E p \in Procs : ResumeAfterContainer(p)
  \/ \E p \in Procs : ResumeAfterVectorStore(p)
  \/ \E p \in Procs : SendRequest(p)
  \/ \E p \in Procs : CallSettles(p)
  \/ \E b \in BOOLEAN : SetFileSearch(b)
  \/ \E b \in BOOLEAN : UpdateBuiltInTools(b)
Spec == Init /\ [][Next]_vars

\* ResponsesClient when no two calls overlap: a call starts only when
\* every earlier call has settled.
NoCallInFlight == \A p \in Procs : procs[p].pc = "idle"
SeqNext ==
  \/ \E p \in Procs, ct \in CustomToolChoices : NoCallInFlight /\ StartAsk(p, ct)
  \/ \E p \in Procs, op \in ResourceOps : NoCallInFlight /\ StartResourceOp(p, op)
  \/ \E p \in Procs : CreateReturns(p)
  \/ \E p \in Procs : CreateFails(p)
  \/ \E p \in Procs : ResumeAfterContainer(p)
  \/ \E p \in Procs : ResumeAfterVectorStore(p)
  \/ \E p \in Procs : SendRequest(p)
  \/ \E p \in Procs : CallSettles(p)
  \/ \E b \in BOOLEAN : SetFileSearch(b)
  \/ \E b \in BOOLEAN : UpdateBuiltInTools(b)
SeqSpec == Init /\ [][SeqNext]_vars

\* SimpleAgent.runAgent on one message.
DispatchInit ==
  /\ tools \in RegistryChoices
  /\ regLog = tools
  /\ ClientIdle
  /\ AgentInit
  /\ OrchIdle
  /\ ParseIdle
  /\ ExtIdle
DispatchNext ==
  \/ Dispatch
  \/ \E o \in {"ok", "fail", "throw"} : ToolSettles(o)
  \/ ModelReturns
  \/ ModelThrows
DispatchSpec == DispatchInit /\ [][DispatchNext]_vars

\* AgentAPI.runAgent on one request.
OrchInit ==
  /\ tools \in OrchRegistries
  /\ regLog = tools
  /\ ClientInit
  /\ oVariant \in Variants
  /\ oVariant # "responses" => config.enableBuiltInTools /\ ~config.enableFileSearch
  /\ message \in (IF oVariant = "simple" THEN OrchMessages ELSE {<<"h","e","l","l","o">>})
  /\ pc = "start"
  /\ branch = "none"
  /\ pending = NoCall
  /\ response = EmptyResponse
  /\ toolCalls = <<>>
  /\ toolResults = <<>>
  /\ errorField = ""
  /\ executed = <<>>
  /\ invoked = <<>>
  /\ threw = <<>>
  /\ oPc = "start"
  /\ oFirst = NoResponse
  /\ oBatch = <<>>
  /\ oIndex = 1
  /\ oTarget = NoTarget
  /\ oResults = <<>>
  /\ oUpstream = <<>>
  /\ oTrace = <<>>
  /\ oThrown = <<>>
  /\ oReturn = NoReturn
  /\ ParseIdle
  /\ options = NoOptions
  /\ FlagsIdle
  /\ SimpleIdle
  /\ oAttempt \in (IF oVariant = "chat" THEN {"none", "unavailable", "idle"} ELSE {"none"})
OrchNext ==
  \/ AskStarts
  \/ oVariant = "responses" /\ CreateReturns(1)
  \/ oVariant = "responses" /\ CreateFails(1)
  \/ oVariant = "responses" /\ ResumeAfterContainer(1)
  \/ oVariant = "responses" /\ ResumeAfterVectorStore(1)
  \/ oVariant = "responses" /\ SendRequest(1)
  \/ AskSettles
  \/ AttemptStarts
  \/ \E outcome \in AttemptOutcomes : AttemptSettles(outcome)
  \/ ChatAsks
  \/ ChatFirstSettles
  \/ BeginToolCall
  \/ \E o \in {"ok", "fail", "throw"} : ExecutorSettles(o)
  \/ \E o \in {"ok", "throw"} : WorkflowToolSettles(o)
  \/ \E r \in BOOLEAN : WorkflowModelSettles(r)
  \/ \E r \in BOOLEAN : FinalCallSettles(r)
  \/ oVariant = "simple" /\ Dispatch
  \/ \E o \in {"ok", "fail", "throw"} : oVariant = "simple" /\ ToolSettles(o)
  \/ oVariant = "simple" /\ ModelReturns
  \/ oVariant = "simple" /\ ModelThrows
  \/ WrapperSettles
OrchSpec == OrchInit /\ [][OrchNext]_vars

\* The same request when every awaited call settles and the event loop runs
\* every continuation that is ready: the steps after an await, and
\* SimpleAgent.runAgent running up to its first await once it is called.
OrchContinues ==
  \/ AskStarts
  \/ oVariant = "responses" /\ CreateReturns(1)
  \/ oVariant = "responses" /\ CreateFails(1)
  \/ oVariant = "responses" /\ ResumeAfterContainer(1)
  \/ oVariant = "responses" /\ ResumeAfterVectorStore(1)
  \/ oVariant = "responses" /\ SendRequest(1)
  \/ AskSettles
  \/ AttemptStarts
  \/ \E outcome \in AttemptOutcomes : AttemptSettles(outcome)
  \/ ChatAsks
  \/ ChatFirstSettles
  \/ BeginToolCall
  \/ \E o \in {"ok", "fail", "throw"} : ExecutorSettles(o)
  \/ \E o \in {"ok", "throw"} : WorkflowToolSettles(o)
  \/ \E r \in BOOLEAN : WorkflowModelSettles(r)
  \/ \E r \in BOOLEAN : FinalCallSettles(r)
  \/ \E o \in {"ok", "fail", "throw"} : oVariant = "simple" /\ ToolSettles(o)
  \/ oVariant = "simple" /\ ModelReturns
  \/ oVariant = "simple" /\ ModelThrows
  \/ WrapperSettles
SimpleCalled ==
  oVariant = "simple" /\ pc = "start" /\ pc' \in {"invoking", "done", "executing"}
OrchLiveSpec ==
  OrchInit /\ [][OrchNext]_vars /\ WF_vars(OrchContinues) /\ WF_pc(SimpleCalled)

\* One ask, by AgentAPI.runAgent or by another caller, with the options of
\* the request; the registry holds either version of the tools.
CurrentTools == [i \in 1..Len(StartupNames) |-> Tool(StartupNames[i], 2)]
RequestRegistries == {StartupTools, CurrentTools, CustomTools}
RequestInit ==
  /\ tools \in RequestRegistries
  /\ regLog = <<>>
  /\ ClientInit
  /\ AgentIdle
  /\ OrchIdle
  /\ ParseIdle
  /\ options \in OptionChoices
  /\ FlagsIdle
  /\ SimpleIdle
  /\ oAttempt = "none"
RequestNext ==
  \/ \E ct \in CustomToolChoices : started = 0 /\ StartAsk(1, ct)
  \/ CreateReturns(1)
  \/ CreateFails(1)
  \/ ResumeAfterContainer(1)
  \/ ResumeAfterVectorStore(1)
  \/ SendRequest(1)
  \/ CallSettles(1)
RequestSpec == RequestInit /\ [][RequestNext]_vars

\* The four flags AgentAPI mirrors into its ResponsesClient, and its
\* mutators enableX / disableX / toggleX.
MirrorKeys == {"enableStructuredOutput", "enableFileSearch", "enableRetrieval",
               "enableComputerUse"}
MutatorOps == {"enable", "disable", "toggle"}

\* The feature-flag manager behind the mutators: enableX sets the flag,
\* disableX clears it, toggleX negates it, shouldEnableX reads it.
managerAfter(op, k, f) ==
  [f EXCEPT ![k] = CASE op = "enable"  -> TRUE
                     [] op = "disable" -> FALSE
                     [] OTHER          -> ~f[k]]
shouldEnable(k, f) == f[k]

\* A constructor that leaves the client at its defaults.
constructedClient_Defaults(f) ==
  [enableBuiltInTools |-> TRUE, enableStructuredOutput |-> FALSE,
   enableFileSearch |-> FALSE, enableRetrieval |-> FALSE, enableComputerUse |-> FALSE]

\* AgentAPI's constructor: "new ResponsesClient({ enableBuiltInTools: true,
\* enableStructuredOutput: featureFlags.shouldEnableStructuredOutput(), ... })".
constructedClient(f) ==
  [enableBuiltInTools |-> TRUE,
   enableStructuredOutput |-> shouldEnable("enableStructuredOutput", f),
   enableFileSearch |-> shouldEnable("enableFileSearch", f),
   enableRetrieval |-> shouldEnable("enableRetrieval", f),
   enableComputerUse |-> shouldEnable("enableComputerUse", f)]

\* What a mutator does to the client after the manager took the operation:
\* enableX / disableX call the client's method of the same name, toggleX
\* calls the one shouldEnableX selects.
clientAfter(op, k, c, f) ==
  [c EXCEPT ![k] = CASE op = "enable"  -> TRUE
                     [] op = "disable" -> FALSE
                     [] OTHER          -> shouldEnable(k, f)]

Mutate(op, k) ==
  /\ Len(flagLog) < MaxSettingOps
  /\ flags' = managerAfter(op, k, flags)
  /\ config' = clientAfter(op, k, config, managerAfter(op, k, flags))
  /\ flagLog' = Append(flagLog, [op |-> op, key |-> k, before |-> flags])
  /\ UNCHANGED <<containerId, fileSearchContainerId, vectorStoreId, procs, created,
                 createCalls, sent, started, regVars, agentVars, orchVars, parseVars,
                 options, simpleVars, oAttempt>>

\* One AgentAPI constructed over a manager in any state, then its mutators.
MirrorInit ==
  /\ RegIdle
  /\ flags \in [MirrorKeys -> BOOLEAN]
  /\ flagLog = <<>>
  /\ config = constructedClient(flags)
  /\ containerId = Null
  /\ fileSearchContainerId = Null
  /\ vectorStoreId = Null
  /\ procs = [p \in Procs |-> IdleProc]
  /\ created = [k \in Kinds |-> 0]
  /\ createCalls = [k \in Kinds |-> 0]
  /\ sent = <<>>
  /\ started = 0
  /\ AgentIdle
  /\ OrchIdle
  /\ ParseIdle
  /\ options = NoOptions
  /\ SimpleIdle
  /\ oAttempt = "none"
MirrorNext == \E op \in MutatorOps, k \in MirrorKeys : Mutate(op, k)
MirrorSpec == MirrorInit /\ [][MirrorNext]_vars

\* The setting operations on the flag manager and on a SimpleAgent
\* constructed with any config.
SettingsInit ==
  /\ RegIdle
  /\ ClientIdle
  /\ AgentIdle
  /\ OrchIdle
  /\ ParseIdle
  /\ options = NoOptions
  /\ FlagsIdle
  /\ \E c \in PartialConfigs :
       /\ simpleConfig = constructedConfig(c)
       /\ simpleModel = constructedModel(constructedConfig(c))
       /\ configLog = <<c>>
  /\ oAttempt = "none"
SettingsNext ==
  \/ \E op \in FlagOps : FlagOp(op)
  \/ \E u \in FlagUpdates : UpdateFlags(u)
  \/ \E nc \in PartialConfigs : UpdateConfig(nc)
SettingsSpec == SettingsInit /\ [][SettingsNext]_vars

\* parseResponse on one upstream response.
ParseInit ==
  /\ RegIdle
  /\ ClientIdle
  /\ AgentIdle
  /\ OrchIdle
  /\ raw \in RawResponses
  /\ parsed = NotParsed
  /\ ExtIdle
ParseNext == ParseResponse
ParseSpec == ParseInit /\ [][ParseNext]_vars

(***************************************************************************)
(*                     Properties: ToolRegistry                            *)
(***************************************************************************)

\* The tool most recently passed to register under name n, per the log.
LastRegistered(n) ==
  LET hits == {i \in 1..Len(regLog) : regLog[i].name = n}
  IN IF hits = {} THEN Undefined
     ELSE regLog[CHOOSE i \in hits : \A j \in hits : j <= i]

\* The names of the log in the order of their first registration.
FirstRegistrations ==
  SelectSeq([i \in 1..Len(regLog) |-> [name |-> regLog[i].name, at |-> i]],
            LAMBDA e : \A j \in 1..(e.at - 1) : regLog[j].name # e.name)

\* C3: after any sequence of register calls the registry holds exactly one
\* entry per distinct registered name, get(name) is the tool of the most
\* recent register call with that name, and get of a name never registered
\* is undefined.
C3_LastWriteWins ==
  /\ \A i, j \in 1..Len(tools) : tools[i].name = tools[j].name => i = j
  /\ {tools[i].name : i \in 1..Len(tools)} = {regLog[i].name : i \in 1..Len(regLog)}
  /\ \A n \in RegNames : get(tools, n) = LastRegistered(n)

\* A name was registered twice with different executors and a third name
\* was never registered.
C3_Witness ==
  /\ Len(regLog) = 2
  /\ regLog[1] = Tool("calculate", 1)
  /\ regLog[2] = Tool("calculate", 2)
  /\ get(tools, "calculate") = Tool("calculate", 2)
  /\ get(tools, "web_search") = Undefined

\* C4: getAll, and getOpenAITools position by position, list the tools in
\* the order of their first registration; re-registering a name replaces
\* the tool in place without moving or duplicating it.
C4_RegistrationOrder ==
  /\ Len(getAll(tools)) = Len(FirstRegistrations)
  /\ \A i \in 1..Len(getAll(tools)) :
       /\ getAll(tools)[i].name = FirstRegistrations[i].name
       /\ getAll(tools)[i] = LastRegistered(FirstRegistrations[i].name)
  /\ Len(getOpenAITools(tools)) = Len(getAll(tools))
  /\ \A i \in 1..Len(getAll(tools)) :
       getOpenAITools(tools)[i].name = getAll(tools)[i].name

\* The first of two registered names was re-registered with another
\* executor.
C4_Witness ==
  /\ regLog = <<Tool("calculate", 1), Tool("get_weather", 1), Tool("calculate", 2)>>
  /\ getAll(tools) = <<Tool("calculate", 2), Tool("get_weather", 1)>>

(***************************************************************************)
(*                    Properties: ResponsesClient                          *)
(***************************************************************************)

\* C1: for each resource kind the provisioning call (containers.create /
\* vectorStores.create) is invoked at most once per client, also when first
\* requests for the resource run concurrently.
C1_ProvisionedAtMostOnce == \A k \in Kinds : createCalls[k] <= 1

\* The code_interpreter declarations of an outbound request.
CodeInterpreterRefs(r) ==
  {r.tools[i].ref : i \in {j \in 1..Len(r.tools) : r.tools[j].type = "code_interpreter"}}

\* C2: over non-overlapping calls, the container is created exactly once,
\* before the first request with built-in tools goes out; every such request
\* declares code_interpreter with that memoized identifier; once set, the
\* stored handle never changes.
C2_ContainerReused ==
  /\ [](/\ created["container"] <= 1
        /\ \A i \in 1..Len(sent) :
             sent[i].builtIn =>
               /\ created["container"] = 1
               /\ containerId # Null
               /\ CodeInterpreterRefs(sent[i]) = {containerId})
  /\ [][containerId # Null => containerId' = containerId]_vars

\* Two requests with built-in tools went out, one after the other.
C2_Witness ==
  /\ Len(sent) >= 2
  /\ sent[1].builtIn /\ sent[2].builtIn
  /\ CodeInterpreterRefs(sent[1]) = {containerId}
  /\ CodeInterpreterRefs(sent[2]) = {containerId}
  /\ created["container"] = 1

(***************************************************************************)
(*                 Properties: SimpleAgent.runAgent                        *)
(***************************************************************************)

K_web      == <<"w", "e", "b">>
K_internet == <<"i", "n", "t", "e", "r", "n", "e", "t">>

\* The message mentions k, whatever the case.
Mentions(s, k) == includes(toLowerCase(s), k)
Registered(n) == \E i \in 1..Len(tools) : tools[i].name = n

IntentBranches == <<"file_search", "web_search", "code_execution", "calculation", "weather">>
Guards(s) == <<needsFileSearch(s), needsWebSearch(s), needsCodeInterpreter(s),
               needsCalculation(s), needsWeather(s)>>

\* C5: exactly one of the six branches is taken, the first in the order
\* file-search, web-search, code-execution, calculation, weather, fallback
\* whose guard is true; only that branch's tool is ever executed.
C5_FirstMatchWins ==
  pc # "start" =>
    LET g == Guards(message)
    IN /\ \A i \in 1..5 :
            branch = IntentBranches[i] <=> (g[i] /\ \A j \in 1..(i - 1) : ~g[j])
       /\ branch = "fallback" <=> \A i \in 1..5 : ~g[i]
       /\ Len(executed) <= 1
       /\ \A k \in 1..Len(executed) : executed[k].name = ToolNameOf(branch)

\* Two guards held and the tool of the earlier one ran.
C5_Witness ==
  /\ pc = "done"
  /\ needsCalculation(message) /\ needsWeather(message)
  /\ Len(toolCalls) = 1
  /\ toolCalls[1].name = "calculate"

\* C6: the five intent guards are mutually exclusive, at most one of them
\* is true for a message.
C6_GuardsExclusive ==
  Cardinality({i \in 1..5 : Guards(message)[i]}) <= 1

\* C6 as amended: only the two search guards exclude each other (the
\* web-search guard is false whenever the file-search guard is true).
C6_SearchGuardsExclusive ==
  needsFileSearch(message) => ~needsWebSearch(message)

\* The file-search guard held for a message with a web-search verb.
C6_Witness ==
  /\ pc = "done"
  /\ needsFileSearch(message)
  /\ Mentions(message, K_search)
  /\ branch = "file_search"

\* C7: the file-search intent is selected only when the message mentions
\* "file" or "document" and a search verb and does not mention "web" or
\* "internet"; a message that mentions "web" or "internet" is never
\* dispatched to the file_search tool.
C7_FileSearchExcludesWeb ==
  pc = "done" =>
    /\ branch = "file_search" =>
         /\ Mentions(message, K_file) \/ Mentions(message, K_document)
         /\ Mentions(message, K_search) \/ Mentions(message, K_find)
              \/ Mentions(message, K_look_for)
         /\ ~Mentions(message, K_web) /\ ~Mentions(message, K_internet)
    /\ (Mentions(message, K_web) \/ Mentions(message, K_internet)) =>
         \A k \in 1..Len(executed) : executed[k].name # "file_search"

\* C7 as amended: the exclusion is of the phrases "web search" and
\* "internet search", not of the words "web" and "internet".
C7_FileSearchExcludesWebSearch ==
  pc = "done" =>
    /\ branch = "file_search" =>
         /\ Mentions(message, K_file) \/ Mentions(message, K_document)
         /\ Mentions(message, K_search) \/ Mentions(message, K_find)
              \/ Mentions(message, K_look_for)
         /\ ~Mentions(message, K_web_search) /\ ~Mentions(message, K_internet_search)
    /\ (Mentions(message, K_web_search) \/ Mentions(message, K_internet_search)) =>
         \A k \in 1..Len(executed) : executed[k].name # "file_search"

\* A message with "file" and the phrase "web search" went to the web search.
C7_Witness ==
  /\ pc = "done"
  /\ Mentions(message, K_file)
  /\ Mentions(message, K_web_search)
  /\ branch = "web_search"
  /\ Len(executed) = 1

\* The texts that can follow "weather (in)?" in s: after an occurrence of
\* "weather", white space and optionally "in" and white space, the text up to
\* the next period or the end, trimmed.
AllSpaces(s, a, b) == a <= b /\ \A q \in a..b : s[q] \in Spaces
LocationsAfterWeather(s) ==
  LET l == toLowerCase(s)
  IN {trim(SubSeq(s, j, j + RunLen(l, NotPeriod, j) - 1)) :
        j \in {j \in 1..Len(s) :
                 /\ l[j] # "."
                 /\ \E i \in 1..Len(s) :
                      /\ MatchAt(l, K_weather, i)
                      /\ \/ AllSpaces(l, i + 7, j - 1)
                         \/ \E m \in (i + 8)..(j - 3) :
                              /\ AllSpaces(l, i + 7, m - 1)
                              /\ MatchAt(l, K_in, m)
                              /\ AllSpaces(l, m + 2, j - 1)}}

S_WeatherInTokyo == <<"W","e","a","t","h","e","r"," ","i","n"," ","T","o","k","y","o">>
S_Tokyo          == <<"T","o","k","y","o">>

WeatherInvoked(loc) ==
  /\ executed = <<[name |-> "get_weather", arg |-> loc]>>
  /\ Len(toolResults) = 1
  /\ toolResults[1].name = "get_weather"
  /\ {"temperature", "condition"} \subseteq toolResults[1].result.fields

\* C8: for every message with "weather" or "temperature" and no file- or
\* web-search cue, the weather intent is selected and get_weather is invoked
\* exactly once with the text following "weather (in)?" as location, and the
\* result carries a temperature and a condition.
C8_WeatherAlwaysInvoked ==
  (/\ pc = "done"
   /\ Registered("get_weather")
   /\ Mentions(message, K_weather) \/ Mentions(message, K_temperature)
   /\ ~needsFileSearch(message) /\ ~needsWebSearch(message))
  => /\ branch = "weather"
     /\ \E loc \in LocationsAfterWeather(message) : WeatherInvoked(loc)

\* C8 as amended: the weather intent is selected when no earlier guard
\* (file search, web search, code, calculation) holds; get_weather is invoked
\* once, with the text following "weather (in)?", when the message has that
\* pattern and the tool is registered, and otherwise no tool is invoked and
\* the response is empty.
C8_WeatherWhenNoEarlierIntent ==
  (/\ pc = "done"
   /\ Mentions(message, K_weather) \/ Mentions(message, K_temperature)
   /\ ~needsFileSearch(message) /\ ~needsWebSearch(message)
   /\ ~needsCodeInterpreter(message) /\ ~needsCalculation(message))
  => /\ branch = "weather"
     /\ IF LocationsAfterWeather(message) # {} /\ Registered("get_weather")
        THEN /\ \E loc \in LocationsAfterWeather(message) : WeatherInvoked(loc)
             /\ message = S_WeatherInTokyo => WeatherInvoked(S_Tokyo)
        ELSE /\ executed = <<>>
             /\ toolCalls = <<>>
             /\ response = EmptyResponse

\* "Weather in Tokyo" was answered by get_weather.
C8_Witness ==
  /\ pc = "done"
  /\ message = S_WeatherInTokyo
  /\ branch = "weather"
  /\ WeatherInvoked(S_Tokyo)

\* The fenced blocks of s: an opening fence, an optional word as language
\* tag, a line break, the content, a line break and the closing fence.
\* BlockContentStart is where the content of a block opened at i starts
\* (0 if no block opens at i).
BlockContentStart(s, i) ==
  IF MatchAt(s, K_fence, i)
  THEN LET p == i + 3 + RunLen(s, WordChars, i + 3)
       IN IF (MatchAt(s, K_nl, p) /\ \E e \in (p + 1)..Len(s) : MatchAt(s, K_nl_fence, e))
          THEN p + 1
          ELSE IF (MatchAt(s, K_nl, i + 3)
                   /\ \E e \in (i + 4)..Len(s) : MatchAt(s, K_nl_fence, e))
               THEN i + 4 ELSE 0
  ELSE 0
HasFencedBlock(s) == \E i \in 1..Len(s) : BlockContentStart(s, i) # 0
FirstFencedContent(s) ==
  LET i == CHOOSE i \in 1..Len(s) :
             BlockContentStart(s, i) # 0 /\ \A j \in 1..(i - 1) : BlockContentStart(s, j) = 0
      p == BlockContentStart(s, i)
      e == CHOOSE e \in p..Len(s) :
             MatchAt(s, K_nl_fence, e) /\ \A f \in p..(e - 1) : ~MatchAt(s, K_nl_fence, f)
  IN trim(SubSeq(s, p, e - 1))

S_TaggedBlock == <<Backtick, Backtick, Backtick, "p", "y", "\n", "x", "\n",
                   Backtick, Backtick, Backtick>>
S_PlainBlock  == <<Backtick, Backtick, Backtick, "\n", " ", "y", " ", "\n",
                   Backtick, Backtick, Backtick>>

CodeInvoked(code) == executed = <<[name |-> "code_interpreter", arg |-> code]>>

\* C9: for every message with a fenced code block the code-execution intent
\* is selected and code_interpreter receives exactly the trimmed content of
\* the first fenced block, with or without a language tag.
C9_FencedCodeAlwaysExecuted ==
  (pc # "start" /\ Registered("code_interpreter") /\ HasFencedBlock(message))
  => /\ branch = "code_execution"
     /\ CodeInvoked(FirstFencedContent(message))

\* C9 as amended: the same, for messages for which neither search guard
\* holds and when code_interpreter is registered.
C9_FencedCodeWhenNoSearchIntent ==
  (/\ pc # "start"
   /\ HasFencedBlock(message)
   /\ ~needsFileSearch(message) /\ ~needsWebSearch(message))
  => /\ branch = "code_execution"
     /\ Registered("code_interpreter") =>
          /\ CodeInvoked(FirstFencedContent(message))
          /\ message = S_TaggedBlock => CodeInvoked(<<"x">>)
          /\ message = S_PlainBlock => CodeInvoked(<<"y">>)

\* A block with a language tag was passed to code_interpreter.
C9_Witness ==
  /\ pc = "done"
  /\ message = S_TaggedBlock
  /\ branch = "code_execution"
  /\ CodeInvoked(<<"x">>)
  /\ Len(toolCalls) = 1

\* C10: a branch that matched but could not extract its argument returns a
\* non-empty explanation, executes no tool (toolCalls and toolResults stay
\* empty) and does not fail.
C10_ExtractionFailureExplained ==
  (/\ pc = "done"
   /\ branch \in {IntentBranches[i] : i \in 1..5}
   /\ ~Extracted(branch, message))
  => /\ response.text # ""
     /\ executed = <<>>
     /\ toolCalls = <<>>
     /\ toolResults = <<>>
     /\ errorField = ""


\* The substring s[i..j] is digits, optional white space, one operator,
\* optional white space, digits.
ArithmeticAt(s, i, j) ==
  \E o \in (i + 1)..(j - 1) :
    /\ s[o] \in Operators
    /\ \E a \in i..(o - 1) :
         /\ \A k \in i..a : s[k] \in Digits
         /\ \A k \in (a + 1)..(o - 1) : s[k] \in Spaces
    /\ \E b \in (o + 1)..j :
         /\ \A k \in (o + 1)..(b - 1) : s[k] \in Spaces
         /\ \A k \in b..j : s[k] \in Digits
ArithmeticSpans(s) ==
  {x \in (1..Len(s)) \X (1..Len(s)) : x[1] < x[2] /\ ArithmeticAt(s, x[1], x[2])}
\* The leftmost arithmetic expression of s, as long as it can be.
FirstArithmetic(s) ==
  LET i == CHOOSE i \in {x[1] : x \in ArithmeticSpans(s)} :
             \A x \in ArithmeticSpans(s) : i <= x[1]
      j == CHOOSE j \in {x[2] : x \in {y \in ArithmeticSpans(s) : y[1] = i}} :
             \A x \in ArithmeticSpans(s) : x[1] = i => x[2] <= j
  IN SubSeq(s, i, j)
\* The value of an arithmetic expression whose numerals are read in base ten.
DecimalNumeral(e, from, step) ==
  LET ks == {k \in 1..Len(e) : \A m \in 1..Len(e) :
                (IF step = 1 THEN m <= k ELSE m >= k) => e[m] \in Digits}
  IN [k \in 1..Cardinality(ks) |->
        e[IF step = 1 THEN k ELSE Len(e) - Cardinality(ks) + k]]
DecimalResult(e) ==
  LET o == CHOOSE o \in 1..Len(e) : e[o] \in Operators
  IN Arithmetic(NumeralValue(DecimalNumeral(e, 1, 1), 10), e[o],
                NumeralValue(DecimalNumeral(e, Len(e), -1), 10))
\* The message has an arithmetic expression and no cue of another intent.
OnlyArithmeticCue(s) ==
  /\ ArithmeticSpans(s) # {}
  /\ ~needsFileSearch(s) /\ ~needsWebSearch(s)
  /\ ~needsCodeInterpreter(s) /\ ~needsWeather(s)

S_Calculate15x23 ==
  <<"C","a","l","c","u","l","a","t","e"," ","1","5"," ","*"," ","2","3">>
S_15x23 == <<"1","5"," ","*"," ","2","3">>

\* C11: for every message whose only intent cue is an arithmetic expression,
\* the calculation branch is taken, calculate is executed exactly once with
\* the first such expression, and the response carries the value of the
\* expression (345 for "Calculate 15 * 23").
C11_CalculationAnswered ==
  (pc = "done" /\ OnlyArithmeticCue(message) /\ Registered("calculate"))
  => /\ branch = "calculation"
     /\ executed = <<[name |-> "calculate", arg |-> FirstArithmetic(message)]>>
     /\ response.text = SuccessText("calculation")
     /\ response.res.value = DecimalResult(FirstArithmetic(message))
     /\ message = S_Calculate15x23 => response.res.value = NumberValue(34500)

\* C12: when no intent guard holds, no executor runs, the model is invoked
\* exactly once with the message unchanged, and once it answered the
\* response is its content with toolCalls and toolResults empty.
C12_FallbackPassesMessage ==
  (pc # "start" /\ LET g == Guards(message) IN \A i \in 1..5 : ~g[i])
  => /\ branch = "fallback"
     /\ executed = <<>>
     /\ invoked = <<message>>
     /\ toolCalls = <<>> /\ toolResults = <<>>
     /\ (pc = "done" /\ errorField = "")
          => response = Response("<content>", message, NoResult)

\* The model answered a message with an upper-case letter and no cue.
C12_Witness ==
  /\ pc = "done"
  /\ branch = "fallback"
  /\ errorField = ""
  /\ message = S_Tokyo
  /\ response.text = "<content>"


(***************************************************************************)
(*                   Properties: AgentAPI.runAgent                         *)
(***************************************************************************)

\* The orchestrator's own requests to the language model so far.
UpstreamCalls == Len(oUpstream) + Len(sent) + Len(invoked)
ModelDriven == oVariant \in {"responses", "chat"}
UnknownAt(i) == Resolve(oVariant, oBatch[i].name) = "unknown"
LastThrown == oThrown[Len(oThrown)]
ExecutorCauses == {"executor", "workflow_tool", "workflow_model"}

\* C13: a tool call whose name is in neither the registry, the workflow
\* names nor the hosted names yields the unknown-tool error as its result
\* and never aborts the request, and a finished loop over N tool calls has
\* N results.
C13_UnknownToolReported ==
  /\ \A i \in 1..Len(oBatch) :
       UnknownAt(i) =>
         /\ i <= Len(oResults) => oResults[i].result = UnknownToolError(oBatch[i].name)
         /\ ~(oPc = "rejected" /\ LastThrown.at = i)
  /\ (oPc \in {"resolved", "synthesizing"} /\ entersToolLoop(oVariant, oFirst))
       => Len(oResults) = Len(oBatch)

\* C14: an executor of a local tool or workflow that throws never fails
\* the request.
C14_ExecutorThrowContained ==
  oPc = "rejected" => LastThrown.cause \notin ExecutorCauses

\* C15: no exception ever leaves runWeatherWorkflow or runSearchWorkflow.
C15_WorkflowNeverThrows ==
  \A k \in 1..Len(oThrown) : oThrown[k].cause \notin {"workflow_tool", "workflow_model"}

\* C16: the executors of a batch are invoked one at a time in array order,
\* the i-th result is the result of the i-th tool call, and the second call
\* or the returned value is made only from a result for every tool call.
C16_SequentialInOrder ==
  /\ \A k \in 1..Len(oTrace) :
       /\ oTrace[k] \in 1..Len(oBatch)
       /\ k > 1 => oTrace[k - 1] < oTrace[k]
  /\ oPc = "executing" =>
       /\ oTrace # <<>>
       /\ oTrace[Len(oTrace)] = oIndex
       /\ Len(oResults) = oIndex - 1
  /\ \A k \in 1..Len(oResults) :
       /\ oResults[k].index = k
       /\ oResults[k].result.name = oBatch[k].name
       /\ oVariant = "chat" => oResults[k].tool_call_id = oBatch[k].id
  /\ \A u \in 1..Len(oUpstream) :
       oUpstream[u].phase = "final" =>
         /\ oUpstream[u].results = oResults
         /\ Len(oResults) = Len(oBatch)
  /\ oReturn.kind \in {"results", "final"} =>
       /\ Len(oResults) = Len(oBatch)
       /\ oReturn.kind = "results" => Len(oReturn.results) = Len(oBatch)

\* Two executors ran in turn and the second call was made from both results.
C16_Witness ==
  /\ oPc = "synthesizing"
  /\ oTrace = <<1, 2>>
  /\ Len(oResults) = 2
  /\ oResults[2].result.success

C18_ResultNotDropped ==
  /\ (oVariant = "simple" /\ pc = "done" /\ toolResults # <<>>
        /\ toolResults[1].result.success)
       => /\ response.text = SuccessText(branch)
          /\ response.res = toolResults[1].result
          /\ oPc = "resolved" => oReturn = ReturnResponse(response)
  /\ (oVariant = "responses" /\ oPc = "resolved" /\ Len(oBatch) >= 1)
       => /\ oReturn.kind = "results"
          /\ Len(oReturn.results) = Len(oBatch)
          /\ \A i \in 1..Len(oBatch) :
               /\ oReturn.results[i] = oResults[i].result
               /\ oReturn.results[i].name = oBatch[i].name

\* The Responses orchestrator returned two results, the second a success.
C18_Witness ==
  /\ oVariant = "responses"
  /\ oPc = "resolved"
  /\ Len(oReturn.results) = 2
  /\ oReturn.results[2].success
  /\ oReturn.results[2].type = "payload"

\* A call of the orchestrator to the language model failed.
UpstreamFailed ==
  \/ \E k \in 1..Len(oThrown) : oThrown[k].cause = "upstream"
  \/ oVariant = "simple" /\ pc = "done" /\ errorField # ""

\* C19: once a call to the language model failed, the request is rejected
\* and returns nothing, no further call to the model is made and no
\* executor is invoked.
C19_UpstreamFailureRejects ==
  /\ [](UpstreamFailed =>
          /\ oPc \in {"start", "rejected"}
          /\ oVariant # "simple" => oPc = "rejected"
          /\ oReturn = NoReturn)
  /\ [][UpstreamFailed =>
          /\ oPc' \in {oPc, "rejected"}
          /\ oUpstream' = oUpstream /\ sent' = sent /\ invoked' = invoked
          /\ oTrace' = oTrace /\ executed' = executed]_vars

\* The model call of SimpleAgent failed and the wrapper rejected.
C19_Witness ==
  /\ oVariant = "simple"
  /\ oPc = "rejected"
  /\ errorField # ""
  /\ invoked # <<>>


(***************************************************************************)
(*                Properties: ResponsesClient.parseResponse                *)
(***************************************************************************)

\* The output parseResponse is written for: a message whose first part is
\* text, or a tool-call list where every call is of a known kind and has the
\* payload of its kind.
KnownKinds == HostedKinds \cup {"function"}
RecognizedMessage(o) ==
  o.type = "message" /\ o.hasContent /\ o.content # <<>> /\ o.content[1].type = "output_text"
RecognizedToolCalls(o) ==
  /\ o.type = "tool_calls" /\ o.hasToolCalls
  /\ \A i \in 1..Len(o.tool_calls) :
       o.tool_calls[i].type \in KnownKinds /\ o.tool_calls[i].payload # "absent"
Recognized(r) ==
  /\ r.present /\ r.hasOutput
  /\ \E i \in 1..Len(r.output.items) :
       RecognizedMessage(r.output.items[i]) \/ RecognizedToolCalls(r.output.items[i])
NoContentStrings == {"No response from OpenAI", "No response content available"}

\* C20: parseResponse never throws, and what it makes of an empty, missing
\* or unrecognized output, a tool-call list with a call of unknown kind or
\* without the payload of its kind included, is a "no content" string.
C20_ParseNeverThrows ==
  parsed # NotParsed =>
    /\ parsed.outcome = "return"
    /\ ~Recognized(raw) => parsed.content \in NoContentStrings


\* The output_text part parseResponse reads: the first part of the first
\* message output.
TextOf(r) ==
  LET outputs == r.output.items
      ms == {i \in 1..Len(outputs) : outputs[i].type = "message"}
  IN IF r.present /\ r.hasOutput /\ ms # {}
     THEN LET m == CHOOSE i \in ms : \A j \in ms : i <= j
          IN IF outputs[m].hasContent /\ outputs[m].content # <<>>
                /\ outputs[m].content[1].type = "output_text"
             THEN <<outputs[m].content[1].text>>
             ELSE <<>>
     ELSE <<>>
JSONDocuments == {"{\"answer\":42}", "42", "null"}

\* C21: for a message output with text, content is the text and toolCalls
\* is absent; structuredOutput is there exactly when the text parses as
\* JSON.
C21_MessageTextParsed ==
  (parsed # NotParsed /\ TextOf(raw) # <<>>) =>
    /\ parsed.outcome = "return"
    /\ parsed.content = TextOf(raw)[1]
    /\ ~parsed.hasToolCalls
    /\ parsed.hasStructuredOutput <=> TextOf(raw)[1] \in JSONDocuments
C21_Witness ==
  /\ parsed # NotParsed
  /\ TextOf(raw) = <<"{\"answer\":42}">>
  /\ parsed.hasStructuredOutput
  /\ parsed.content = "{\"answer\":42}"

\* The tool-call batch parseResponse reads: the tool_calls of the first
\* tool_calls output, when no message text takes precedence.
BatchOf(r) ==
  LET outputs == r.output.items
      ts == {i \in 1..Len(outputs) : outputs[i].type = "tool_calls"}
  IN IF r.present /\ r.hasOutput /\ TextOf(r) = <<>> /\ ts # {}
     THEN LET t == CHOOSE i \in ts : \A j \in ts : i <= j
          IN IF outputs[t].hasToolCalls THEN <<outputs[t].tool_calls>> ELSE <<>>
     ELSE <<>>
WellFormed(calls) == \A i \in 1..Len(calls) : calls[i].payload # "absent"
KindName(call) ==
  IF call.type \in HostedKinds THEN call.type
  ELSE IF call.payload = "a" THEN "calculate" ELSE "get_weather"
KindType(call) ==
  CASE call.type = "web_search"           -> "web_search_call"
    [] call.type = "code_interpreter"     -> "code_interpreter_call"
    [] call.type = "file_search"          -> "file_search_call"
    [] call.type = "retrieval"            -> "retrieval_call"
    [] call.type = "computer_use_preview" -> "computer_use_call"
    [] OTHER                              -> "function_call"

\* C22: a tool-call batch whose entries all carry the payload of their kind
\* is decoded entry by entry: the decoded list has the length and order of
\* the batch, and the name and type of each record follow from the kind of
\* its entry.
C22_BatchDecodedByKind ==
  (parsed # NotParsed /\ BatchOf(raw) # <<>> /\ WellFormed(BatchOf(raw)[1])) =>
    LET calls == BatchOf(raw)[1]
    IN /\ parsed.outcome = "return"
       /\ parsed.hasToolCalls
       /\ Len(parsed.toolCalls) = Len(calls)
       /\ \A i \in 1..Len(calls) :
            /\ parsed.toolCalls[i].name = KindName(calls[i])
            /\ parsed.toolCalls[i].type = KindType(calls[i])
            /\ parsed.toolCalls[i].arguments = calls[i].payload
C22_Witness ==
  /\ parsed # NotParsed
  /\ BatchOf(raw) # <<>>
  /\ Len(BatchOf(raw)[1]) = 2
  /\ BatchOf(raw)[1][1].type = "code_interpreter"
  /\ BatchOf(raw)[1][2].type = "function"
  /\ WellFormed(BatchOf(raw)[1])
  /\ Len(parsed.toolCalls) = 2


(***************************************************************************)
(*                  Properties: the outbound request                       *)
(***************************************************************************)

\* C23: the outbound request has the key of a generation parameter exactly
\* when the caller gave the parameter a value (0 and false included), and
\* then with that value.
C23_ParametersPassedWhenGiven ==
  \A i \in 1..Len(sent) : \A k \in ParamKeys :
    IF options[k] \in {"absent", "undefined"}
    THEN sent[i].params[BodyKey(k)] = "absent"
    ELSE sent[i].params[BodyKey(k)] = options[k]
C23_Witness ==
  /\ Len(sent) = 1
  /\ procs[1].custom = WorkflowTools
  /\ options.temperature = "0" /\ sent[1].params.temperature = "0"
  /\ options.parallelToolCalls = "false" /\ sent[1].params.parallel_tool_calls = "false"
  /\ options.topP = "absent" /\ sent[1].params.top_p = "absent"

\* C24: every function tool of an outbound request has a schema with
\* additionalProperties: false whose required list names every property.
C24_SchemasStrict ==
  \A i \in 1..Len(sent) : \A j \in 1..Len(sent[i].tools) :
    sent[i].tools[j].type = "function" =>
      /\ sent[i].tools[j].parameters.additionalProperties = "false"
      /\ sent[i].tools[j].parameters.required = sent[i].tools[j].parameters.properties


(***************************************************************************)
(*                      Properties: the settings                           *)
(***************************************************************************)

\* The flags after the i-th logged operation.
FlagsAfter(i) == IF i = Len(flagLog) THEN flags ELSE flagLog[i + 1].before

\* C25: two toggles in a row give back the flags as they were, a toggle
\* changes no other flag, and a second enable (disable) in a row changes
\* nothing.
C25_DoubleToggleRestores ==
  /\ \A i \in 1..Len(flagLog) :
       flagLog[i].op = "toggleBuiltInTools" =>
         /\ FlagsAfter(i).enableBuiltInTools = ~flagLog[i].before.enableBuiltInTools
         /\ FlagsAfter(i).enableJsonSchemaOutput = flagLog[i].before.enableJsonSchemaOutput
  /\ \A i \in 1..(Len(flagLog) - 1) :
       /\ (flagLog[i].op = "toggleBuiltInTools" /\ flagLog[i + 1].op = "toggleBuiltInTools")
            => FlagsAfter(i + 1) = flagLog[i].before
       /\ (flagLog[i].op = flagLog[i + 1].op
             /\ flagLog[i].op \in {"enableBuiltInTools", "disableBuiltInTools"})
            => /\ FlagsAfter(i + 1) = FlagsAfter(i)
               /\ FlagsAfter(i).enableBuiltInTools = (flagLog[i].op = "enableBuiltInTools")
C25_Witness ==
  /\ Len(flagLog) = 2
  /\ flagLog[1].op = "toggleBuiltInTools"
  /\ flagLog[2].op = "toggleBuiltInTools"
  /\ flags = DefaultFlags

\* C29: the temperature in the configuration of SimpleAgent, and the one its
\* model was built with, is the default 1.
C29_TemperatureIsDefault ==
  /\ simpleConfig.temperature = "1"
  /\ simpleModel.temperature \in {"absent", "1"}


(***************************************************************************)
(*               Properties: the flags read by a request                   *)
(***************************************************************************)

\* The hosted tools a request declares under the flags c.
HostedFor(c) ==
  IF c.enableBuiltInTools
  THEN {"web_search_preview", "code_interpreter"}
         \cup (IF c.enableFileSearch THEN {"file_search"} ELSE {})
  ELSE {}
HostedIn(ts) == {ts[j].type : j \in {j \in 1..Len(ts) : ts[j].type # "function"}}

\* C26: the hosted tools a request declares are those of the flags that
\* held when the request started.
C26_FlagsSnapshotAtStart ==
  \A p \in Procs :
    (procs[p].op = "ask" /\ procs[p].pc \in {"built", "request"}) =>
      HostedIn(procs[p].tools) = HostedFor(procs[p].atStart)

\* C30: an ask started with built-in tools disabled never waits for a
\* create call or a handle and declares function tools only, whatever the
\* other flags are.
C30_DisabledBuiltInsProvisionNothing ==
  \A p \in Procs :
    (procs[p].op = "ask" /\ ~procs[p].atStart.enableBuiltInTools) =>
      /\ procs[p].pc \in {"built", "request"}
      /\ HostedIn(procs[p].tools) = {}
      /\ \A i \in 1..Len(sent) : sent[i].by = p /\ i = Len(sent) /\ procs[p].pc = "request"
                                   => sent[i].tools = procs[p].tools
C30_Witness ==
  \E p \in Procs :
    /\ procs[p].op = "ask"
    /\ procs[p].pc = "request"
    /\ ~procs[p].atStart.enableBuiltInTools
    /\ procs[p].atStart.enableFileSearch
    /\ Len(procs[p].tools) >= 2
    /\ createCalls = [k \in Kinds |-> 0]


\* C28: in the hybrid agent a hosted attempt that threw or came back empty
\* never rejects the request, which goes on to the first Chat Completions
\* call with the user's message; an attempt that yields a final output is
\* what runAgent returns, with no Chat Completions call made and no local
\* tool or workflow started.
C28_AttemptFallsBack ==
  /\ oAttempt \in {"empty", "throw"} =>
       /\ Len(oUpstream) >= 1
       /\ oUpstream[1] = initialMessages(message)
       /\ \A k \in 1..Len(oThrown) : oThrown[k].cause # "agent"
  /\ oAttempt = "output" =>
       /\ oPc = "resolved"
       /\ oReturn = ReturnContent("agent")
       /\ oUpstream = <<>>
       /\ oTrace = <<>>
       /\ oResults = <<>>
       /\ executed = <<>>
       /\ oThrown = <<>>

C28_Witness ==
  /\ oAttempt = "throw"
  /\ oPc = "resolved"
  /\ Len(oUpstream) = 2
  /\ oReturn.kind = "final"


\* C27: no step of a runAgent call writes the tool registry, the
\* configuration of the client or of SimpleAgent (its model parameters
\* included) or the feature flags; what a request leaves behind is at most
\* the memoized container and vector-store handles.
SessionState == <<tools, config, flags, simpleConfig, simpleModel>>
Phase ==
  CASE oPc = "rejected" -> "Failed"
    [] oPc = "resolved" -> "Done"
    [] oPc \in {"attempting", "asking"} -> "Classifying"
    [] oPc \in {"loop", "executing"} -> "Executing"
    [] oPc = "synthesizing" -> "Synthesizing"
    [] oVariant = "simple" /\ pc = "executing" -> "Executing"
    [] oVariant = "simple" /\ pc \in {"invoking", "done"} -> "Synthesizing"
    [] oVariant = "responses" /\ procs[1].op = "ask" -> "Classifying"
    [] OTHER -> "Start"
PhaseRank(ph) ==
  CASE ph = "Start" -> 0
    [] ph = "Classifying" -> 1
    [] ph = "Executing" -> 2
    [] ph = "Synthesizing" -> 3
    [] OTHER -> 4
InOrder ==
  Phase' # Phase =>
    /\ Phase \notin {"Done", "Failed"}
    /\ Phase' = "Failed" \/ PhaseRank(Phase') > PhaseRank(Phase)
OneOutcome ==
  /\ Phase = "Done" => oReturn # NoReturn /\ oThrown = <<>>
  /\ Phase = "Failed" => oReturn = NoReturn /\ Len(oThrown) = 1
  /\ Phase \notin {"Done", "Failed"} => oReturn = NoReturn /\ oThrown = <<>>

\* C31: a request only moves forward through Start, Classifying, Executing,
\* Synthesizing, Done, or to Failed, and leaves neither Done nor Failed;
\* when every awaited call settles it reaches Done or Failed, with exactly
\* one outcome: a returned value and no exception, or one exception and no
\* returned value.
C31_OrderedAndTerminates ==
  /\ [][InOrder]_vars
  /\ []OneOutcome
  /\ <>(Phase \in {"Done", "Failed"})

C31_Witness ==
  /\ oVariant = "chat"
  /\ Phase = "Done"
  /\ oTrace # <<>>
  /\ Len(oUpstream) = 2
  /\ oReturn = ReturnContent("final")


\* C32: the registry is consulted first: while a tool call is being
\* executed, the registry's executor is the target exactly when the name is
\* registered, and a workflow runs only for an unregistered name; a canned
\* hosted result or an unknown-tool error is pushed only for an
\* unregistered name.
C32_RegistryFirst ==
  /\ oPc = "executing" =>
       /\ oTarget.name = oBatch[oIndex].name
       /\ Registered(oTarget.name) <=> oTarget.kind = "registry"
       /\ oTarget.kind = "workflow" => ~Registered(oTarget.name)
  /\ \A i \in 1..Len(oResults) :
       oResults[i].result.type \in {"hosted", "error"} =>
         ~Registered(oBatch[oResults[i].index].name)

C32_Witness ==
  /\ oPc = "executing"
  /\ oTarget = [kind |-> "registry", name |-> "weather_workflow", step |-> "execute"]
  /\ Len(oResults) = 1
  /\ oResults[1].result = Payload("web_search", TRUE)


\* C33: once the executor SimpleAgent dispatched to has thrown, runAgent is
\* done with the explanatory sentence of the branch as its response, no
\* error field, and no entry for the call in toolCalls or toolResults; the
\* wrapper then returns that response and does not throw.
C33_ExecutorThrowCaughtAtCallSite ==
  (oVariant = "simple" /\ threw # <<>>) =>
    /\ pc = "done"
    /\ response.text = ThrownText(branch)
    /\ response.text # ""
    /\ errorField = ""
    /\ toolCalls = <<>>
    /\ toolResults = <<>>
    /\ oPc \in {"start", "resolved"}
    /\ oPc = "resolved" => oReturn = ReturnResponse(response)

C33_Witness ==
  /\ oVariant = "simple"
  /\ threw = <<"calculate">>
  /\ oPc = "resolved"
  /\ oReturn.response.text = ThrownText("calculation")


\* C34: SimpleAgent starts at most one executor per request, of a tool the
\* registry holds; toolCalls and toolResults have the same length, at most
\* one, and name the tool that was executed; when the tool of the matched
\* intent is not registered nothing is executed and runAgent returns
\* without an error.
C34_AtMostOneRegisteredTool ==
  /\ Len(executed) <= 1
  /\ \A i \in 1..Len(executed) :
       Registered(executed[i].name) /\ executed[i].name = ToolNameOf(branch)
  /\ Len(toolCalls) = Len(toolResults)
  /\ Len(toolCalls) <= Len(executed)
  /\ \A i \in 1..Len(toolCalls) :
       toolCalls[i].name = executed[i].name /\ toolResults[i].name = executed[i].name
  /\ (pc # "start" /\ branch # "fallback" /\ ~Registered(ToolNameOf(branch))) =>
       /\ pc = "done"
       /\ executed = <<>>
       /\ toolCalls = <<>>
       /\ errorField = ""

C34_Witness ==
  /\ pc = "done"
  /\ branch = "weather"
  /\ Extracted(branch, message)
  /\ ~Registered("get_weather")
  /\ executed = <<>>
  /\ response = EmptyResponse


\* C35: a create call that fails leaves the three handles as they are and
\* makes its caller reject, and a rejected call sends no request; a create
\* call is issued exactly when a getter is called while its handle is
\* unset, so a call after a failure provisions again and no call provisions
\* once the handle is set; a handle that is set is never unset.
Handles == <<containerId, fileSearchContainerId, vectorStoreId>>
EntersGetter(p, k) ==
  /\ procs'[p].pc \in {"create", "ready"}
  /\ procs'[p].kind = k
  /\ procs[p].pc = "idle" \/ procs[p].kind # k
ProvisioningStep ==
  /\ \A p \in Procs :
       /\ (procs[p].pc = "create" /\ procs'[p].pc # "create" /\ created' = created) =>
            /\ procs'[p].pc = "rejected"
            /\ Handles' = Handles
            /\ sent' = sent
       /\ procs[p].pc = "rejected" =>
            /\ procs'[p].pc \in {"rejected", "idle"}
            /\ sent' = sent \/ sent'[Len(sent')].by # p
       /\ \A k \in Kinds :
            EntersGetter(p, k) =>
              IF HandleOf(k) = Null
              THEN procs'[p].pc = "create" /\ createCalls'[k] = createCalls[k] + 1
              ELSE procs'[p].pc = "ready" /\ createCalls'[k] = createCalls[k]
  /\ \A k \in Kinds :
       /\ createCalls'[k] # createCalls[k] => HandleOf(k) = Null
       /\ HandleOf(k) # Null => HandleOf(k)' # Null
C35_FailedProvisioningRetried == [][ProvisioningStep]_vars

C35_Witness ==
  /\ createCalls["container"] = 2
  /\ created["container"] = 1
  /\ containerId = 1
  /\ Len(sent) = 1
  /\ started = 2
  /\ NoCallInFlight


\* C36: the function tools declared in one outbound request have pairwise
\* distinct names.
FunctionToolsOf(ts) == SelectSeq(ts, LAMBDA t : t.type = "function")
C36_FunctionNamesDistinct ==
  \A r \in 1..Len(sent) :
    LET fs == FunctionToolsOf(sent[r].tools)
    IN \A i, j \in 1..Len(fs) : fs[i].name = fs[j].name => i = j


\* C37: after the constructor and after every mutator of AgentAPI, each of
\* the four mirrored flags of the client's configuration equals the flag of
\* the manager.
C37_ClientMirrorsManager ==
  \A k \in MirrorKeys : config[k] = flags[k]

C37_Witness ==
  /\ Len(flagLog) = 2
  /\ flagLog[1] = [op |-> "toggle", key |-> "enableFileSearch",
                   before |-> [k \in MirrorKeys |-> k = "enableRetrieval"]]
  /\ flagLog[2].op = "disable"
  /\ flagLog[2].key = "enableRetrieval"
  /\ config.enableFileSearch
  /\ ~config.enableRetrieval


\* C38: the names getAvailableBuiltInTools lists under the configuration of
\* the client are the hosted tool types of the tool list buildTools built
\* for a request under that configuration.
C38_ListedEqualsDeclared ==
  \A p \in Procs :
    (procs[p].op = "ask" /\ procs[p].pc \in {"built", "request"}) =>
      {getAvailableBuiltInTools(config)[i] :
         i \in 1..Len(getAvailableBuiltInTools(config))} = HostedIn(procs[p].tools)

\* The tool_calls batch an output carries, whether or not parseResponse
\* reads it: the tool_calls of the first tool_calls output.
CarriedBatch(r) ==
  LET outputs == r.output.items
      ts == {i \in 1..Len(outputs) : outputs[i].type = "tool_calls"}
  IN IF r.present /\ r.hasOutput /\ ts # {}
     THEN LET t == CHOOSE i \in ts : \A j \in ts : i <= j
          IN IF outputs[t].hasToolCalls THEN <<outputs[t].tool_calls>> ELSE <<>>
     ELSE <<>>
\* What the orchestrator's tool loop sees of a parsed response.
LoopView(res) == [present |-> res.hasToolCalls, calls |-> res.toolCalls]

\* C39: when the output carries both a message with non-empty text and a
\* tool_calls batch, parseResponse returns the message result without
\* toolCalls, so the orchestrator's tool loop is not entered and no requested
\* call is executed; toolCalls is populated only when the first message
\* output has no text part to read.
C39_MessageBeforeToolCalls ==
  parsed # NotParsed =>
    /\ (TextOf(raw) # <<>> /\ TextOf(raw)[1] # "" /\ CarriedBatch(raw) # <<>>) =>
         /\ parsed.outcome = "return"
         /\ parsed.content = TextOf(raw)[1]
         /\ ~parsed.hasToolCalls
         /\ parsed.toolCalls = <<>>
         /\ ~entersToolLoop("responses", LoopView(parsed))
    /\ parsed.hasToolCalls => TextOf(raw) = <<>>
C39_Witness ==
  /\ parsed # NotParsed
  /\ TextOf(raw) # <<>> /\ TextOf(raw)[1] # ""
  /\ CarriedBatch(raw) # <<>> /\ CarriedBatch(raw)[1] # <<>>
  /\ ~parsed.hasToolCalls
  /\ parsed.content = TextOf(raw)[1]

====
